---- MODULE Spec2Model ----
(***************************************************************************)
(* Alpine Flow positioning engine: the layered layout (layout.js,          *)
(* layoutNodes) and the force simulation engine (force.js,                 *)
(* createForceSimulation).                                                 *)
(*                                                                         *)
(* Layout: layoutNodes is a pure function; LayoutSpec draws its arguments  *)
(* in Init and the action LayoutNodes applies it.  The record it leaves in *)
(* lout holds the returned list and the intermediate values of the call    *)
(* (ranks, layers, positions).                                             *)
(*                                                                         *)
(* Force simulation: one engine (the closure createForceSimulation         *)
(* returns).  Its variables are the closure's; every exported function is  *)
(* an action.  requestAnimationFrame is the set rafPending of the handles  *)
(* whose callback has not run; pc tells whether the host's tick callback   *)
(* is executing inside loop.  Numbers are fixed-point: a real r is the     *)
(* integer nearest to r * Scale, and every product and quotient is rounded *)
(* to the nearest unit, as a double rounds to its nearest value.           *)
(***************************************************************************)
EXTENDS Integers, Sequences, FiniteSets, TLC

VARIABLES
    lnodes,     \* layoutNodes argument: the node list
    ledges,     \* layoutNodes argument: the edge list
    lopts,      \* layoutNodes argument: the options (a partial record)
    lout,       \* the call's outcome; lout.called = FALSE before the call
    options,    \* force.js: let options
    alpha,      \* force.js: let alpha
    nodes,      \* force.js: let nodes, the Map in insertion order
    links,      \* force.js: let links
    frameId,    \* force.js: let frameId, a handle or Null
    running,    \* force.js: let running
    onTick,     \* force.js: let onTick, a callback or Null
    rafPending, \* the handles requestAnimationFrame gave out and not yet run or cancelled
    pc,         \* "host", or "callback" while loop is inside onTick(getState())
    snap,       \* the value a getState() call returned to the host
    last,       \* the operation executed last, with its arguments
    steps       \* the operations executed so far, or Null when not counted

lvars == <<lnodes, ledges, lopts, lout>>

svars == <<options, alpha, nodes, links, frameId, running, onTick, rafPending,
           pc, snap, last, steps>>

vars == <<lvars, svars>>

\* ------------------------------------------------------------------ helpers

Max(a, b) == IF a >= b THEN a ELSE b

Min(a, b) == IF a <= b THEN a ELSE b

Range(s) == {s[i] : i \in 1..Len(s)}

SetMax(S, zero) == IF S = {} THEN zero ELSE CHOOSE m \in S : \A x \in S : x <= m

SetMin(S, zero) == IF S = {} THEN zero ELSE CHOOSE m \in S : \A x \in S : m <= x

\* const x = v; F(x): the value v is computed once, then F uses it.
Bind(v, F(_)) == CHOOSE y \in {F(x) : x \in {v}} : TRUE

\* A JavaScript Map read with a default: map.get(k) ?? d
MapGet(map, k, d) == IF k \in DOMAIN map THEN map[k] ELSE d

\* map.set(k, v)
MapSet(map, k, v) == [x \in DOMAIN map \cup {k} |-> IF x = k THEN v ELSE map[x]]

\* An insertion-ordered Set as a sequence without duplicates: set.add(x)
SetAdd(s, x) == IF x \in Range(s) THEN s ELSE Append(s, x)

RECURSIVE SeqSum(_)
SeqSum(s) == IF s = <<>> THEN 0 ELSE Head(s) + SeqSum(Tail(s))

\* ------------------------------------------------------------------ layout.js

LAYOUT_DEFAULTS ==
    [direction |-> "TB", nodeSpacing |-> 50, rankSpacing |-> 100,
     nodeWidth |-> 172, nodeHeight |-> 36, alignment |-> "center"]

\* { ...LAYOUT_DEFAULTS, ...opts }
MergeOptions(defaults, opts) ==
    [k \in DOMAIN defaults \cup DOMAIN opts |->
        IF k \in DOMAIN opts THEN opts[k] ELSE defaults[k]]

\* node._needsLayout is "true", "false" or "unset" (the property is absent);
\* node.position.has = FALSE stands for an absent position.
HasExplicitPosition(node) ==
    IF node.flag = "true" THEN FALSE
    ELSE IF node.flag = "false" THEN TRUE
    ELSE IF ~node.position.has THEN FALSE
    ELSE TRUE

NodeIds(ns) == {ns[i].id : i \in 1..Len(ns)}

NodeById(ns, id) == ns[CHOOSE i \in 1..Len(ns) : ns[i].id = id]

\* Step 1: the ids that need layout.
NeedsLayoutSet(ns) ==
    {ns[i].id : i \in {j \in 1..Len(ns) : ~HasExplicitPosition(ns[j])}}

\* Step 2 with the test of the source alone
EdgeKeptBySource(ns, edge) == edge.source \in NodeIds(ns)

\* Step 2: an edge is kept when nodeMap has both of its ends.
EdgeKept(ns, edge) ==
    edge.source \in NodeIds(ns) /\ edge.target \in NodeIds(ns)

\* adj.get(edge.source) and inAdj.get(edge.target) are undefined for an id
\* that no node has, and .add on undefined throws: threw records it.
RECURSIVE BuildAdj(_, _, _, _)
BuildAdj(ns, edges, i, acc) ==
    IF i > Len(edges) THEN acc
    ELSE LET e == edges[i] IN
         IF ~EdgeKept(ns, e) THEN BuildAdj(ns, edges, i + 1, acc)
         ELSE IF e.source \notin DOMAIN acc.adj \/ e.target \notin DOMAIN acc.inAdj
         THEN [acc EXCEPT !.threw = TRUE]
         ELSE BuildAdj(ns, edges, i + 1,
                [adj   |-> [acc.adj EXCEPT ![e.source] = SetAdd(@, e.target)],
                 inAdj |-> [acc.inAdj EXCEPT ![e.target] = SetAdd(@, e.source)],
                 threw |-> FALSE])

Adjacency(ns, edges) ==
    BuildAdj(ns, edges, 1,
             [adj   |-> [id \in NodeIds(ns) |-> <<>>],
              inAdj |-> [id \in NodeIds(ns) |-> <<>>],
              threw |-> FALSE])

\* Step 3: _assignRanks.  st = [ranks, visited, inStack] of the code, and two
\* records of the run: calls counts the invocations of dfs, back holds the
\* edges <<source, target>> examined while the target was on the recursion
\* path (inStack), the back edges; backRaised holds those of them whose
\* examination changed the rank of the target.
DfsEnter(st, id, depth) ==
    [st EXCEPT !.inStack = @ \cup {id},
               !.visited = @ \cup {id},
               !.ranks = MapSet(@, id, Max(MapGet(@, id, 0), depth))]

\* "Ensure child rank is at least parent + 1", before the recursive call.
RaiseChild(st, child, depth) ==
    IF depth + 1 > MapGet(st.ranks, child, 0)
    THEN [st EXCEPT !.ranks = MapSet(@, child, depth + 1)]
    ELSE st

RECURSIVE Dfs(_, _, _, _)
RECURSIVE DfsChildren(_, _, _, _, _)
Dfs(st, adj, id, depth) ==
    LET s0 == [st EXCEPT !.calls = @ + 1] IN
    IF id \in s0.inStack THEN s0
    ELSE IF id \in s0.visited THEN s0
    ELSE LET s1 == DfsEnter(s0, id, depth)
             s2 == DfsChildren(s1, adj, id, depth, 1)
         IN  [s2 EXCEPT !.inStack = @ \ {id}]

\* adj.get(id) || []
AdjGet(adj, id) == IF id \in DOMAIN adj THEN adj[id] ELSE <<>>

NoteEdge(st, id, child) ==
    IF child \in st.inStack THEN [st EXCEPT !.back = @ \cup {<<id, child>>}] ELSE st

NoteRaise(st, id, child, depth) ==
    IF child \in st.inStack /\ RaiseChild(st, child, depth).ranks # st.ranks
    THEN [st EXCEPT !.backRaised = @ \cup {<<id, child>>}]
    ELSE st

DfsChildren(st, adj, id, depth, i) ==
    IF i > Len(AdjGet(adj, id)) THEN st
    ELSE LET child == AdjGet(adj, id)[i]
             s1 == RaiseChild(NoteRaise(NoteEdge(st, id, child), id, child, depth),
                              child, depth)
             s2 == Dfs(s1, adj, child, depth + 1)
         IN  DfsChildren(s2, adj, id, depth, i + 1)

\* nodes.filter(n => inAdj.get(n.id).size === 0), as the list of ids
RECURSIVE Roots(_, _, _)
Roots(ns, inAdj, i) ==
    IF i > Len(ns) THEN <<>>
    ELSE (IF Len(inAdj[ns[i].id]) = 0 THEN <<ns[i].id>> ELSE <<>>)
         \o Roots(ns, inAdj, i + 1)

RECURSIVE DfsFromRoots(_, _, _, _)
DfsFromRoots(st, adj, roots, i) ==
    IF i > Len(roots) THEN st
    ELSE DfsFromRoots(Dfs(st, adj, roots[i], 0), adj, roots, i + 1)

\* _assignRanks without the sweep of the unvisited nodes
DfsNoSweep(st, adj, ns, i) == st

\* "Handle any disconnected nodes not yet visited"
RECURSIVE DfsSweep(_, _, _, _)
DfsSweep(st, adj, ns, i) ==
    IF i > Len(ns) THEN st
    ELSE DfsSweep(IF ns[i].id \notin st.visited
                  THEN Dfs(st, adj, ns[i].id, 0) ELSE st,
                  adj, ns, i + 1)

AssignRanks(ns, adj, inAdj) ==
    LET st0   == [ranks |-> <<>>, visited |-> {}, inStack |-> {}, calls |-> 0,
                  back |-> {}, backRaised |-> {}]
        roots == Roots(ns, inAdj, 1)
        st1   == IF Len(roots) = 0 THEN Dfs(st0, adj, ns[1].id, 0) ELSE st0
        st2   == DfsFromRoots(st1, adj, roots, 1)
    IN  DfsSweep(st2, adj, ns, 1)

\* Step 4: layers[r] holds, in input order, the ids of rank r (0..maxRank);
\* layers[r] of the code is Layers(..)[r + 1] here.
MaxRank(ranks) == SetMax({ranks[id] : id \in DOMAIN ranks} \cup {0}, 0)

RECURSIVE LayerOf(_, _, _, _)
LayerOf(ns, ranks, r, i) ==
    IF i > Len(ns) THEN <<>>
    ELSE (IF MapGet(ranks, ns[i].id, 0) = r THEN <<ns[i].id>> ELSE <<>>)
         \o LayerOf(ns, ranks, r, i + 1)

\* Layers that hold only the nodes that need layout
LayersOfUnplaced(ns, ranks) ==
    [k \in 1..(MaxRank(ranks) + 1) |->
        LayerOf(SelectSeq(ns, LAMBDA node : ~HasExplicitPosition(node)),
                ranks, k - 1, 1)]

Layers(ns, ranks) ==
    [k \in 1..(MaxRank(ranks) + 1) |-> LayerOf(ns, ranks, k - 1, 1)]

\* Step 5: _barycenterOrdering.  A barycenter is sum / count, kept as the
\* exact fraction num / den, or Infinity (inf = TRUE).
IndexIn(layer, id) == CHOOSE i \in 1..Len(layer) : layer[i] = id

\* refPositions holds the 0-based index of each id of the reference layer.
Barycenter(nodeId, adjacency, referenceLayer) ==
    LET neighbors == adjacency[nodeId]
        found == {i \in 1..Len(neighbors) : neighbors[i] \in Range(referenceLayer)}
        sum   == SeqSum([i \in 1..Len(neighbors) |->
                    IF i \in found THEN IndexIn(referenceLayer, neighbors[i]) - 1
                    ELSE 0])
        count == Cardinality(found)
    IN  IF Len(neighbors) = 0 \/ count = 0
        THEN [inf |-> TRUE, num |-> 0, den |-> 1]
        ELSE [inf |-> FALSE, num |-> sum, den |-> count]

\* The comparator's sign: ba - bb < 0, with ba === bb giving 0.
BaryLess(ba, bb) ==
    /\ ~ba.inf
    /\ (bb.inf \/ ba.num * bb.den < bb.num * ba.den)

\* Array.prototype.sort is stable: an element goes after every element whose
\* key is not greater than its own.
RECURSIVE InsertBeforeEqual(_, _, _)
\* An insertion that goes before the elements of an equal key
InsertBeforeEqual(sorted, x, key) ==
    IF sorted = <<>> THEN <<x>>
    ELSE IF ~BaryLess(key[Head(sorted)], key[x]) THEN <<x>> \o sorted
    ELSE <<Head(sorted)>> \o InsertBeforeEqual(Tail(sorted), x, key)

RECURSIVE StableInsert(_, _, _)
StableInsert(sorted, x, key) ==
    IF sorted = <<>> THEN <<x>>
    ELSE IF BaryLess(key[x], key[Head(sorted)]) THEN <<x>> \o sorted
    ELSE <<Head(sorted)>> \o StableInsert(Tail(sorted), x, key)

RECURSIVE StableSort(_, _, _, _)
StableSort(layer, key, i, acc) ==
    IF i > Len(layer) THEN acc
    ELSE StableSort(layer, key, i + 1, StableInsert(acc, layer[i], key))

OrderLayerByBarycenter(layers, layerIndex, adjacency, referenceLayer) ==
    LET layer == layers[layerIndex]
        barycenters == [id \in Range(layer) |->
                            Barycenter(id, adjacency, referenceLayer)]
    IN  [layers EXCEPT ![layerIndex] = StableSort(layer, barycenters, 1, <<>>)]

\* Down pass: layers[i] by its parents in layers[i - 1], i = 1..length-1
\* (indices here are 1-based: i = 2..Len).
RECURSIVE DownPass(_, _, _)
DownPass(layers, inAdj, i) ==
    IF i > Len(layers) THEN layers
    ELSE DownPass(OrderLayerByBarycenter(layers, i, inAdj, layers[i - 1]),
                  inAdj, i + 1)

\* Up pass: layers[i] by its children in layers[i + 1], i = length-2..0.
RECURSIVE UpPass(_, _, _)
UpPass(layers, adj, i) ==
    IF i < 1 THEN layers
    ELSE UpPass(OrderLayerByBarycenter(layers, i, adj, layers[i + 1]),
                adj, i - 1)

Iterations == 4

RECURSIVE BarycenterIter(_, _, _, _)
BarycenterIter(layers, adj, inAdj, iter) ==
    IF iter >= Iterations THEN layers
    ELSE BarycenterIter(UpPass(DownPass(layers, inAdj, 2), adj, Len(layers) - 1),
                        adj, inAdj, iter + 1)

BarycenterOrdering(layers, adj, inAdj) == BarycenterIter(layers, adj, inAdj, 0)

\* Step 6: _assignCoordinates.  A size that is absent is 0 (falsy), so
\* a || b || c || fallback takes the first one that is not 0.
FirstTruthy(a, b, c, fallback) ==
    IF a # 0 THEN a ELSE IF b # 0 THEN b ELSE IF c # 0 THEN c ELSE fallback

\* _getNodeDim(node, fallback, dim)
GetNodeDim(node, fallback, dim) ==
    IF dim = "width"
    THEN FirstTruthy(node.measured.width, node.width, node.initialWidth, fallback)
    ELSE FirstTruthy(node.measured.height, node.height, node.initialHeight, fallback)

\* _getNodeSize(node, fallback, isHorizontal): the size along the cross axis
GetNodeSize(node, fallback, isHorizontal) ==
    IF isHorizontal
    THEN FirstTruthy(node.measured.height, node.height, node.initialHeight, fallback)
    ELSE FirstTruthy(node.measured.width, node.width, node.initialWidth, fallback)

\* _getMaxRankSize(layer, nodeMap, fallback, isHorizontal)
GetMaxRankSize(layer, ns, fallback, isHorizontal) ==
    LET sizes == {(IF isHorizontal
                   THEN FirstTruthy(NodeById(ns, id).measured.width,
                                    NodeById(ns, id).width,
                                    NodeById(ns, id).initialWidth, fallback)
                   ELSE FirstTruthy(NodeById(ns, id).measured.height,
                                    NodeById(ns, id).height,
                                    NodeById(ns, id).initialHeight, fallback))
                  : id \in Range(layer)}
        max == SetMax({s \in sizes : s > 0} \cup {0}, 0)
    IN  IF max # 0 THEN max ELSE fallback

LayerWidth(layer, ns, opt, isHorizontal) ==
    SeqSum([i \in 1..Len(layer) |->
              GetNodeSize(NodeById(ns, layer[i]),
                          IF isHorizontal THEN opt.nodeHeight
                          ELSE opt.nodeWidth, isHorizontal)])
    + Max(0, Len(layer) - 1) * opt.nodeSpacing

\* (maxLayerWidth - layerWidth) / 2; the sizes and spacings drawn are even,
\* so the quotient is exact.
CrossOffset(alignment, maxLayerWidth, layerWidth) ==
    IF alignment = "center" THEN (maxLayerWidth - layerWidth) \div 2
    ELSE IF alignment = "end" THEN maxLayerWidth - layerWidth
    ELSE 0

\* A cursor that never advances
CursorFromOffset(layer, ns, opt, isHorizontal, crossOffset, k) == crossOffset

\* The cursor before the k-th node of a layer.
RECURSIVE Cursor(_, _, _, _, _, _)
Cursor(layer, ns, opt, isHorizontal, crossOffset, k) ==
    IF k = 1 THEN crossOffset
    ELSE Cursor(layer, ns, opt, isHorizontal, crossOffset, k - 1)
         + (IF isHorizontal
            THEN GetNodeDim(NodeById(ns, layer[k - 1]), opt.nodeHeight, "height")
            ELSE GetNodeDim(NodeById(ns, layer[k - 1]), opt.nodeWidth, "width"))
         + opt.nodeSpacing

\* A rank offset that leaves out the size of the ranks before
RankOffsetBySpacing(layers, ns, opt, isHorizontal, r) == (r - 1) * opt.rankSpacing

\* rankOffset before layer r (1-based).
RECURSIVE RankOffset(_, _, _, _, _)
RankOffset(layers, ns, opt, isHorizontal, r) ==
    IF r = 1 THEN 0
    ELSE RankOffset(layers, ns, opt, isHorizontal, r - 1)
         + GetMaxRankSize(layers[r - 1], ns,
                          IF isHorizontal THEN opt.nodeWidth
                          ELSE opt.nodeHeight, isHorizontal)
         + opt.rankSpacing

\* The position set for the k-th node of layer r, before normalisation.
PlaceNode(rankOffset, cursor, isHorizontal, isReversed) ==
    LET x0 == IF isHorizontal THEN rankOffset ELSE cursor
        y0 == IF isHorizontal THEN cursor ELSE rankOffset
    IN  [x |-> IF isReversed /\ isHorizontal THEN -x0 ELSE x0,
         y |-> IF isReversed /\ ~isHorizontal THEN -y0 ELSE y0]

\* Positions left where they are
PositionsUnshifted(positions) == positions

\* _normalizePositions: shift so that the minimum x and y are 0.
NormalizePositions(positions) ==
    LET minX == SetMin({positions[id].x : id \in DOMAIN positions}, 0)
        minY == SetMin({positions[id].y : id \in DOMAIN positions}, 0)
    IN  [id \in DOMAIN positions |->
            [x |-> positions[id].x - minX, y |-> positions[id].y - minY]]

AssignCoordinates(layers, ns, opt, isHorizontal, isReversed) ==
    LET layerWidths == [r \in 1..Len(layers) |->
                            LayerWidth(layers[r], ns, opt, isHorizontal)]
        maxLayerWidth == SetMax({layerWidths[r] : r \in 1..Len(layers)} \cup {0}, 0)
        slots == {<<r, k>> : r \in 1..Len(layers), k \in 1..Len(ns)}
        placed == {rk \in slots : rk[2] <= Len(layers[rk[1]])}
        slotOf(id) == CHOOSE rk \in placed : layers[rk[1]][rk[2]] = id
        raw == [id \in {layers[rk[1]][rk[2]] : rk \in placed} |->
                  LET r == slotOf(id)[1]
                      k == slotOf(id)[2]
                  IN  PlaceNode(
                        RankOffset(layers, ns, opt, isHorizontal, r),
                        Cursor(layers[r], ns, opt, isHorizontal,
                               CrossOffset(opt.alignment, maxLayerWidth,
                                           layerWidths[r]), k),
                        isHorizontal, isReversed)]
    IN  IF isReversed THEN NormalizePositions(raw) ELSE raw

\* Step 7 without the needsLayout test
ApplyPositionToAll(node, needsLayout, positions) ==
    IF node.id \notin DOMAIN positions THEN node
    ELSE [node EXCEPT !.position =
            [has |-> TRUE, x |-> positions[node.id].x, y |-> positions[node.id].y]]

\* Step 7 that hands every node back as it came
ApplyPositionToNone(node, needsLayout, positions) == node

\* Step 7: only the nodes that need layout get the computed position.
ApplyPosition(node, needsLayout, positions) ==
    IF node.id \notin needsLayout THEN node
    ELSE IF node.id \notin DOMAIN positions THEN node
    ELSE [node EXCEPT !.position =
            [has |-> TRUE, x |-> positions[node.id].x, y |-> positions[node.id].y]]

NoLayout(ns) ==
    [called |-> TRUE, computed |-> FALSE, threw |-> FALSE, returned |-> ns,
     ranks |-> <<>>, visited |-> {}, calls |-> 0, back |-> {},
     backRaised |-> {}, layers |-> <<>>, positions |-> <<>>]

\* The call ended in an exception and returned nothing.
LayoutThrew ==
    [called |-> TRUE, computed |-> FALSE, threw |-> TRUE, returned |-> <<>>,
     ranks |-> <<>>, visited |-> {}, calls |-> 0, back |-> {},
     backRaised |-> {}, layers |-> <<>>, positions |-> <<>>]

LayoutNodesResult(ns, edges, opts) ==
    IF Len(ns) = 0 THEN NoLayout(ns)
    ELSE
    LET opt      == MergeOptions(LAYOUT_DEFAULTS, opts)
        isHorizontal == opt.direction \in {"LR", "RL"}
        isReversed   == opt.direction \in {"BT", "RL"}
        needsLayout  == NeedsLayoutSet(ns)
    IN  IF needsLayout = {} THEN NoLayout(ns)
        ELSE
        LET a      == Adjacency(ns, edges)
        IN  IF a.threw THEN LayoutThrew ELSE
        LET st     == AssignRanks(ns, a.adj, a.inAdj)
            layers == BarycenterOrdering(Layers(ns, st.ranks), a.adj, a.inAdj)
            positions == AssignCoordinates(layers, ns, opt,
                                           isHorizontal, isReversed)
        IN  [called |-> TRUE, computed |-> TRUE, threw |-> FALSE,
             returned |-> [i \in 1..Len(ns) |->
                              ApplyPosition(ns[i], needsLayout, positions)],
             ranks |-> st.ranks, visited |-> st.visited, calls |-> st.calls,
             back |-> st.back, backRaised |-> st.backRaised,
             layers |-> layers, positions |-> positions]

\* ------------------------------------------------------------------ numbers

\* Scale = ScaleRoot^2 units make 1.0.
ScaleRoot == 100

Scale == ScaleRoot * ScaleRoot

\* The real n / d as a fixed-point number.
Fx(n, d) == (n * Scale) \div d

\* The value that is not a finite number (NaN); null is Null.
NaN == 0 - 2 ^ 30

Null == 0 - 2 ^ 30 - 1

\* Number.isFinite(x): false for null and for NaN
IsFinite(x) == x # NaN /\ x # Null

Abs(a) == IF a < 0 THEN 0 - a ELSE a

Sign(a) == IF a < 0 THEN 0 - 1 ELSE 1

\* n / d for n >= 0, d > 0, rounded to the nearest integer.
RoundDiv(n, d) == (2 * n + d) \div (2 * d)

\* a * b: the four partial products of the integer and fractional parts, so
\* that no intermediate value leaves the 32-bit range.
FxMul(a, b) ==
    LET a1 == Abs(a) \div Scale
        a0 == Abs(a) % Scale
        b1 == Abs(b) \div Scale
        b0 == Abs(b) % Scale
    IN  Sign(a) * Sign(b)
        * (a1 * b1 * Scale + a1 * b0 + a0 * b1 + RoundDiv(a0 * b0, Scale))

\* a / b, by long division in base ScaleRoot; x / 0 is not finite.  A large
\* divisor is first brought under 10^9 / ScaleRoot together with the dividend,
\* so that no intermediate value leaves the 32-bit range.
FxDiv(a, b) ==
    IF b = 0 THEN NaN
    ELSE LET g  == 1 + Abs(b) \div ((10 ^ 9) \div ScaleRoot)
             n  == Abs(a) \div g
             d  == Abs(b) \div g
             r0 == n % d
             q1 == (r0 * ScaleRoot) \div d
             r1 == (r0 * ScaleRoot) % d
             q2 == RoundDiv(r1 * ScaleRoot, d)
         IN  Sign(a) * Sign(b) * ((n \div d) * Scale + q1 * ScaleRoot + q2)

\* The integer square root, by bisection: the largest r with r * r <= n.
RECURSIVE ISqrtIn(_, _, _)
ISqrtIn(n, lo, hi) ==
    IF lo >= hi THEN lo
    ELSE LET mid == (lo + hi + 1) \div 2 IN
         IF mid * mid <= n THEN ISqrtIn(n, mid, hi) ELSE ISqrtIn(n, lo, mid - 1)

ISqrt(n) == ISqrtIn(n, 0, 46340)

\* Math.hypot(dx, dy); large arguments are scaled down before squaring.
Hypot(dx, dy) ==
    LET f == 1 + Max(Abs(dx), Abs(dy)) \div 30000
    IN  ISqrt((Abs(dx) \div f) * (Abs(dx) \div f) + (Abs(dy) \div f) * (Abs(dy) \div f)) * f

\* Math.sqrt(v) of a fixed-point v >= 0
FxSqrt(v) ==
    IF v < 200000 THEN ISqrt(v * Scale) ELSE ISqrt(v) * ScaleRoot

\* ------------------------------------------------------------------ force.js

\* The id 'streamline'; the other ids are 1, 2, ...
Streamline == 0

FORCE_DEFAULTS ==
    [linkDistance |-> Fx(100, 1), linkStrength |-> Fx(8, 100),
     chargeStrength |-> Fx(0 - 300, 1), collisionRadius |-> Fx(45, 1),
     centerStrength |-> Fx(5, 100), centerX |-> 0, centerY |-> 0,
     anchorNodeId |-> Streamline,
     alpha |-> Fx(3, 10), alphaMin |-> Fx(2, 1000), alphaDecay |-> Fx(4, 100),
     alphaTarget |-> 0, velocityDecay |-> Fx(2, 10),
     maxChargeDistance |-> Fx(500, 1), minDistance |-> Fx(8, 1)]

\* Math.max(a, b): NaN when either is NaN
MathMax(a, b) == IF a = NaN \/ b = NaN THEN NaN ELSE Max(a, b)

\* a <= b and a > b of numbers: both false when either is NaN
Le(a, b) == a # NaN /\ b # NaN /\ a <= b

Gt(a, b) == a # NaN /\ b # NaN /\ a > b

\* setOptions: options = { ...options, ...nextOptions } and the alpha key
SetOptionsKeepsAlpha(a, nextOptions) == a

SetOptionsAlpha(a, nextOptions) ==
    IF "alpha" \in DOMAIN nextOptions THEN nextOptions.alpha ELSE a

\* a lookup that answers with the first entry for an id it does not hold
SeqIndexOrFirst(seq, id) ==
    IF \E i \in 1..Len(seq) : seq[i].id = id
    THEN CHOOSE i \in 1..Len(seq) : seq[i].id = id
    ELSE Min(1, Len(seq))

\* The place of id in a Map kept as the sequence of its entries, 0 for none.
SeqIndex(seq, id) ==
    IF \E i \in 1..Len(seq) : seq[i].id = id
    THEN CHOOSE i \in 1..Len(seq) : seq[i].id = id
    ELSE 0

\* the entry made from the list's node alone
NodeEntryFromList(existing, node) ==
    [id |-> node.id,
     x  |-> IF node.position.has THEN node.position.x ELSE 0,
     y  |-> IF node.position.has THEN node.position.y ELSE 0,
     vx |-> 0, vy |-> 0, fx |-> Null, fy |-> Null, mass |-> 1]

NodeEntry(existing, node) ==
    LET has == existing.id # Null IN
    [id |-> node.id,
     x  |-> IF has /\ IsFinite(existing.x) THEN existing.x
            ELSE IF node.position.has /\ IsFinite(node.position.x)
                 THEN node.position.x ELSE 0,
     y  |-> IF has /\ IsFinite(existing.y) THEN existing.y
            ELSE IF node.position.has /\ IsFinite(node.position.y)
                 THEN node.position.y ELSE 0,
     vx |-> IF has THEN existing.vx ELSE 0,
     vy |-> IF has THEN existing.vy ELSE 0,
     fx |-> IF has THEN existing.fx ELSE Null,
     fy |-> IF has THEN existing.fy ELSE Null,
     mass |-> 1]

NoNode ==
    [id |-> Null, x |-> 0, y |-> 0, vx |-> 0, vy |-> 0, fx |-> Null, fy |-> Null,
     mass |-> 1]

\* nodes.get(id), NoNode when the Map has no such key
NodesGet(map, id) == IF SeqIndex(map, id) = 0 THEN NoNode ELSE map[SeqIndex(map, id)]

\* map.set(entry.id, entry): a key the Map holds keeps its place
NodesSet(map, entry) ==
    IF SeqIndex(map, entry.id) = 0 THEN Append(map, entry)
    ELSE [map EXCEPT ![SeqIndex(map, entry.id)] = entry]

RECURSIVE SetNodesFrom(_, _, _, _)
SetNodesFrom(old, nodeList, i, next) ==
    IF i > Len(nodeList) THEN next
    ELSE SetNodesFrom(old, nodeList, i + 1,
            NodesSet(next, NodeEntry(NodesGet(old, nodeList[i].id), nodeList[i])))

\* setNodes into the Map the engine holds
SetNodesIntoOld(old, nodeList) == SetNodesFrom(old, nodeList, 1, old)

SetNodesResult(old, nodeList) == SetNodesFrom(old, nodeList, 1, <<>>)

\* setEdges: the filter, then the map to { source, target }
RECURSIVE SetEdgesFrom(_, _, _)
SetEdgesFrom(map, edgeList, i) ==
    IF i > Len(edgeList) THEN <<>>
    ELSE (IF SeqIndex(map, edgeList[i].source) # 0 /\ SeqIndex(map, edgeList[i].target) # 0
          THEN <<[source |-> edgeList[i].source, target |-> edgeList[i].target]>>
          ELSE <<>>)
         \o SetEdgesFrom(map, edgeList, i + 1)

\* setEdges without the filter
SetEdgesUnfiltered(map, edgeList) ==
    [i \in 1..Len(edgeList) |->
        [source |-> edgeList[i].source, target |-> edgeList[i].target]]

SetEdgesResult(map, edgeList) == SetEdgesFrom(map, edgeList, 1)

\* requestAnimationFrame(loop) returns a handle it has not returned before.
\* The engine keeps the last handle only, in frameId, so the least handle that
\* no pending request has and that frameId does not hold stands for it.
MaxPending == 3

Handles == 1..(MaxPending + 2)

NewHandle(sc) == CHOOSE h \in Handles :
                    /\ h \notin sc.rafPending \cup {sc.frameId}
                    /\ \A g \in 1..(h - 1) : g \in sc.rafPending \cup {sc.frameId}

\* The engine's scheduling variables, as start(), stop() and loop change them.
Sched == [running |-> running, frameId |-> frameId, rafPending |-> rafPending,
          onTick |-> onTick]

\* stop()
StopResult(sc) ==
    [sc EXCEPT !.running = FALSE,
               !.frameId = Null,
               !.rafPending = IF sc.frameId # Null THEN @ \ {sc.frameId} ELSE @]

\* start without "if (running) return"
StartAgain(sc, tickCallback) ==
    LET s1 == IF tickCallback # Null THEN [sc EXCEPT !.onTick = tickCallback] ELSE sc
    IN  [s1 EXCEPT !.running = TRUE,
                   !.frameId = NewHandle(s1),
                   !.rafPending = @ \cup {NewHandle(s1)}]

\* start(tickCallback)
StartResult(sc, tickCallback) ==
    LET s1 == IF tickCallback # Null THEN [sc EXCEPT !.onTick = tickCallback] ELSE sc
    IN  IF s1.running THEN s1
        ELSE [s1 EXCEPT !.running = TRUE,
                        !.frameId = NewHandle(s1),
                        !.rafPending = @ \cup {NewHandle(s1)}]

\* loop without its first line
LoopRunsAlways(sc) == TRUE

\* loop: "if (!running) return"
LoopRuns(sc) == sc.running

\* A settled test that looks at alpha alone
SettledByAlpha(a, opt) == Le(a, opt.alphaMin)

\* loop, after the callback: stop() when settled, else request the next frame
Settled(a, opt) == Le(a, opt.alphaMin) /\ Le(opt.alphaTarget, opt.alphaMin)

\* A loop that requests its next frame whatever alpha is
LoopTailRequests(sc, a, opt) ==
    [sc EXCEPT !.frameId = NewHandle(sc),
               !.rafPending = @ \cup {NewHandle(sc)}]

LoopTail(sc, a, opt) ==
    IF Settled(a, opt) THEN StopResult(sc)
    ELSE [sc EXCEPT !.frameId = NewHandle(sc),
                    !.rafPending = @ \cup {NewHandle(sc)}]

\* reheat(nextAlphaTarget)
\* reheat that sets alpha to its argument
ReheatAlphaSet(a, t) == t

ReheatAlpha(a, t) == MathMax(a, t)

ReheatOptions(opt, t) == [opt EXCEPT !.alphaTarget = MathMax(@, t)]

\* reheat without its call of start
ReheatNoStart(sc) == sc

ReheatSched(sc) == IF ~sc.running THEN StartResult(sc, sc.onTick) ELSE sc

\* setAlphaTarget(nextAlphaTarget)
SetAlphaTargetOptions(opt, t) == [opt EXCEPT !.alphaTarget = MathMax(0, t)]

\* setAlphaTarget that starts every Idle engine
SetAlphaTargetStarts(sc, a, opt) ==
    IF ~sc.running THEN StartResult(sc, sc.onTick) ELSE sc

SetAlphaTargetSched(sc, a, opt) ==
    IF ~sc.running /\ (Gt(a, opt.alphaMin) \/ Gt(opt.alphaTarget, opt.alphaMin))
    THEN StartResult(sc, sc.onTick) ELSE sc

\* setAlpha(nextAlpha)
SetAlphaResult(v) == MathMax(0, v)

\* pinNode(id, x, y) on the entry of id
PinResult(node, x, y) ==
    LET nx == IF IsFinite(x) THEN x ELSE node.x
        ny == IF IsFinite(y) THEN y ELSE node.y
    IN  [node EXCEPT !.x = nx, !.y = ny,
                     !.fx = IF IsFinite(x) THEN x ELSE nx,
                     !.fy = IF IsFinite(y) THEN y ELSE ny,
                     !.vx = 0, !.vy = 0]

\* movePinnedNode(id, x, y) on the entry of id
MovePinnedResult(node, x, y) ==
    IF ~IsFinite(x) \/ ~IsFinite(y) THEN node
    ELSE [node EXCEPT !.x = x, !.y = y, !.fx = x, !.fy = y, !.vx = 0, !.vy = 0]

\* unpinNode(id) on the entry of id
UnpinResult(node) == [node EXCEPT !.fx = Null, !.fy = Null]

\* An operation on the entry of id; nothing when nodes has no such id.
OnNode(map, id, f(_)) ==
    IF SeqIndex(map, id) = 0 THEN map
    ELSE [map EXCEPT ![SeqIndex(map, id)] = f(@)]

\* ---------------------------------------------------------------- force.js: tick

\* "node.fx != null && node.fy != null"
Pinned(node) == node.fx # Null /\ node.fy # Null

\* !v of a number: 0 and NaN are falsy
Falsy(v) == v = 0 \/ v = NaN

\* applyCenterForce(currentAlpha, dt)
CenterForceOn(node, targetX, targetY, strength) ==
    IF Pinned(node) THEN node
    ELSE [node EXCEPT !.vx = @ + FxMul(targetX - node.x, strength),
                      !.vy = @ + FxMul(targetY - node.y, strength)]

ApplyCenterForce(ns, opt, currentAlpha, dt) ==
    IF Falsy(opt.centerStrength) THEN ns
    ELSE IF Len(ns) = 0 THEN ns
    ELSE LET targetX == IF IsFinite(opt.centerX) THEN opt.centerX ELSE 0
             targetY == IF IsFinite(opt.centerY) THEN opt.centerY ELSE 0
             On(strength) ==
                 [i \in 1..Len(ns) |-> CenterForceOn(ns[i], targetX, targetY, strength)]
         IN  Bind(FxMul(FxMul(opt.centerStrength, currentAlpha), dt), On)

\* applyLinkForce(currentAlpha, dt): the body of the loop for one link
LinkForceOn(ns, link, targetDistance, strength) ==
    LET si == SeqIndex(ns, link.source)
        ti == SeqIndex(ns, link.target)
    IN  IF si = 0 \/ ti = 0 THEN ns
        ELSE
        LET dx0   == ns[ti].x - ns[si].x
            dy    == ns[ti].y - ns[si].y
            dist0 == Hypot(dx0, dy)
            dist  == IF dist0 = 0 THEN Fx(1, 1000) ELSE dist0
            dx    == IF dist0 = 0 THEN Fx(1, 1000) ELSE dx0
            delta == dist - targetDistance
            force == FxMul(FxDiv(delta, dist), strength)
            fx    == FxMul(dx, force)
            fy    == FxMul(dy, force)
            n1    == IF ns[si].fx = Null
                     THEN [ns EXCEPT ![si].vx = @ + fx, ![si].vy = @ + fy]
                     ELSE ns
        IN  IF n1[ti].fx = Null
            THEN [n1 EXCEPT ![ti].vx = @ - fx, ![ti].vy = @ - fy]
            ELSE n1

RECURSIVE LinkForceFrom(_, _, _, _, _)
LinkForceFrom(ns, lks, i, targetDistance, strength) ==
    IF i > Len(lks) THEN ns
    ELSE LinkForceFrom(LinkForceOn(ns, lks[i], targetDistance, strength),
                       lks, i + 1, targetDistance, strength)

ApplyLinkForce(ns, lks, opt, currentAlpha, dt) ==
    IF Len(lks) = 0 \/ opt.linkStrength = 0 THEN ns
    ELSE LinkForceFrom(ns, lks, 1, Max(Scale, opt.linkDistance),
                       FxMul(FxMul(opt.linkStrength, currentAlpha), dt))

\* The pairs (i, j), i < j, in the order of the two nested loops.
RECURSIVE PairsFrom(_, _, _)
PairsFrom(n, i, j) ==
    IF i >= n THEN <<>>
    ELSE IF j > n THEN PairsFrom(n, i + 1, i + 2)
    ELSE <<<<i, j>>>> \o PairsFrom(n, i, j + 1)

Pairs(n) == PairsFrom(n, 1, 2)

\* applyChargeForce(currentAlpha, dt): the body of the loops for one pair;
\* jitter = <<jx, jy>> are the two values (Math.random() - 0.5) * 0.01.
ChargeForceOn(ns, i, j, maxDist, minDist, k, jitter) ==
    LET dx0     == ns[j].x - ns[i].x
        dy0     == ns[j].y - ns[i].y
        distSq0 == FxMul(dx0, dx0) + FxMul(dy0, dy0)
        dx      == IF distSq0 = 0 THEN jitter[1] ELSE dx0
        dy      == IF distSq0 = 0 THEN jitter[2] ELSE dy0
        distSq  == IF distSq0 = 0 THEN FxMul(dx, dx) + FxMul(dy, dy) ELSE distSq0
        dist    == FxSqrt(distSq)
    IN  IF dist > maxDist THEN ns
        ELSE
        LET clamped == Max(minDist, dist)
            force   == FxDiv(k, FxMul(clamped, clamped))
            nx      == FxDiv(dx, clamped)
            ny      == FxDiv(dy, clamped)
            n1      == IF ns[i].fx = Null
                       THEN [ns EXCEPT ![i].vx = @ - FxMul(nx, force),
                                       ![i].vy = @ - FxMul(ny, force)]
                       ELSE ns
        IN  IF n1[j].fx = Null
            THEN [n1 EXCEPT ![j].vx = @ + FxMul(nx, force),
                            ![j].vy = @ + FxMul(ny, force)]
            ELSE n1

RECURSIVE ChargeForceFrom(_, _, _, _, _, _, _)
ChargeForceFrom(ns, pairs, p, maxDist, minDist, k, jitter) ==
    IF p > Len(pairs) THEN ns
    ELSE ChargeForceFrom(
            ChargeForceOn(ns, pairs[p][1], pairs[p][2], maxDist, minDist, k, jitter),
            pairs, p + 1, maxDist, minDist, k, jitter)

ApplyChargeForce(ns, opt, currentAlpha, dt, jitter) ==
    IF Len(ns) < 2 \/ opt.chargeStrength = 0 THEN ns
    ELSE ChargeForceFrom(ns, Pairs(Len(ns)), 1,
                         Max(Scale, opt.maxChargeDistance), Max(Scale, opt.minDistance),
                         FxMul(FxMul(opt.chargeStrength, currentAlpha), dt), jitter)

\* A collision step that pushes by the whole overlap
CollisionForceWhole(ns, i, j, minDistance, dt) ==
    LET dx0   == ns[j].x - ns[i].x
        dy    == ns[j].y - ns[i].y
        dist0 == Hypot(dx0, dy)
        dist  == IF dist0 = 0 THEN Fx(1, 1000) ELSE dist0
        dx    == IF dist0 = 0 THEN Fx(1, 1000) ELSE dx0
        overlap == minDistance - dist
    IN  IF overlap <= 0 THEN ns
        ELSE
        LET nx   == FxDiv(dx, dist)
            ny   == FxDiv(dy, dist)
            push == FxMul(overlap, dt)
            n1   == IF ns[i].fx = Null
                    THEN [ns EXCEPT ![i].x = @ - FxMul(nx, push),
                                    ![i].y = @ - FxMul(ny, push)]
                    ELSE ns
        IN  IF n1[j].fx = Null
            THEN [n1 EXCEPT ![j].x = @ + FxMul(nx, push),
                            ![j].y = @ + FxMul(ny, push)]
            ELSE n1

\* applyCollisionForce(dt): the body of the loops for one pair
CollisionForceOn(ns, i, j, minDistance, dt) ==
    LET dx0   == ns[j].x - ns[i].x
        dy    == ns[j].y - ns[i].y
        dist0 == Hypot(dx0, dy)
        dist  == IF dist0 = 0 THEN Fx(1, 1000) ELSE dist0
        dx    == IF dist0 = 0 THEN Fx(1, 1000) ELSE dx0
        overlap == minDistance - dist
    IN  IF overlap <= 0 THEN ns
        ELSE
        LET nx   == FxDiv(dx, dist)
            ny   == FxDiv(dy, dist)
            push == FxMul(FxMul(overlap, Fx(5, 10)), dt)
            n1   == IF ns[i].fx = Null
                    THEN [ns EXCEPT ![i].x = @ - FxMul(nx, push),
                                    ![i].y = @ - FxMul(ny, push)]
                    ELSE ns
        IN  IF n1[j].fx = Null
            THEN [n1 EXCEPT ![j].x = @ + FxMul(nx, push),
                            ![j].y = @ + FxMul(ny, push)]
            ELSE n1

RECURSIVE CollisionForceFrom(_, _, _, _, _)
CollisionForceFrom(ns, pairs, p, minDistance, dt) ==
    IF p > Len(pairs) THEN ns
    ELSE CollisionForceFrom(
            CollisionForceOn(ns, pairs[p][1], pairs[p][2], minDistance, dt),
            pairs, p + 1, minDistance, dt)

ApplyCollisionForce(ns, opt, dt) ==
    IF Len(ns) < 2 \/ opt.collisionRadius <= 0 THEN ns
    ELSE CollisionForceFrom(ns, Pairs(Len(ns)), 1, opt.collisionRadius * 2, dt)

\* The last loop of tick: pinned nodes snap, the others move.
Integrate(node, velocityScale, dt) ==
    IF Pinned(node)
    THEN [node EXCEPT !.x = node.fx, !.y = node.fy, !.vx = 0, !.vy = 0]
    ELSE LET vx == FxMul(node.vx, velocityScale)
             vy == FxMul(node.vy, velocityScale)
         IN  [node EXCEPT !.vx = vx, !.vy = vy,
                          !.x = @ + FxMul(vx, dt), !.y = @ + FxMul(vy, dt)]

\* alpha += (options.alphaTarget - alpha) * options.alphaDecay
TickAlpha(a, opt) == a + FxMul(opt.alphaTarget - a, opt.alphaDecay)

\* tick(dt): [alpha, nodes] afterwards.  The steps run one after the other,
\* each on the nodes the one before left.
TickResult(a, ns, lks, opt, dt, jitter) ==
    IF Len(ns) = 0 THEN [alpha |-> a, nodes |-> ns]
    ELSE LET Steps(a1) ==
                 LET velocityScale == Max(0, Scale - opt.velocityDecay)
                     Last(n4) ==
                         [alpha |-> a1,
                          nodes |-> [i \in 1..Len(n4) |->
                                        Integrate(n4[i], velocityScale, dt)]]
                     Collide(n3) == Bind(ApplyCollisionForce(n3, opt, dt), Last)
                     Charge(n2) == Bind(ApplyChargeForce(n2, opt, a1, dt, jitter), Collide)
                     Link(n1) == Bind(ApplyLinkForce(n1, lks, opt, a1, dt), Charge)
                 IN  Bind(ApplyCenterForce(ns, opt, a1, dt), Link)
         IN  Bind(TickAlpha(a, opt), Steps)

\* Math.sin and Math.cos at the half-radians 0, 0.5, 1, ... the model uses:
\* the argument h stands for the angle h / 2.
SinHalf(h) ==
    CASE h = 0 -> 0
      [] h = 1 -> Fx(4794, 10000)
      [] h = 2 -> Fx(8415, 10000)
      [] h = 3 -> Fx(9975, 10000)
      [] OTHER -> Fx(9093, 10000)

CosHalf(h) ==
    CASE h = 0 -> Scale
      [] h = 1 -> Fx(8776, 10000)
      [] h = 2 -> Fx(5403, 10000)
      [] h = 3 -> Fx(707, 10000)
      [] OTHER -> 0 - Fx(4161, 10000)

\* pulseAmbient without the test for the anchor node
PulseOnAnchor(node, index, phaseHalf, anchorNodeId) ==
    IF Pinned(node) THEN node
    ELSE LET k == FxMul(Fx(3, 10), SinHalf(phaseHalf + index)) IN
         [node EXCEPT !.vx = @ + FxMul(Fx(1, 100), k),
                      !.vy = @ + FxMul(FxMul(Fx(1, 100), Fx(3, 10)),
                                       CosHalf(phaseHalf + index))]

\* pulseAmbient without the test for a pinned node
PulseOnAll(node, index, phaseHalf, anchorNodeId) ==
    IF node.id = anchorNodeId THEN node
    ELSE LET k == FxMul(Fx(3, 10), SinHalf(phaseHalf + index)) IN
         [node EXCEPT !.vx = @ + FxMul(Fx(1, 100), k),
                      !.vy = @ + FxMul(FxMul(Fx(1, 100), Fx(3, 10)),
                                       CosHalf(phaseHalf + index))]

\* pulseAmbient(phase), phase = phaseHalf / 2: index is the place in the Map
PulseOn(node, index, phaseHalf, anchorNodeId) ==
    IF node.id = anchorNodeId THEN node
    ELSE IF Pinned(node) THEN node
    ELSE LET k == FxMul(Fx(3, 10), SinHalf(phaseHalf + index)) IN
         [node EXCEPT !.vx = @ + FxMul(Fx(1, 100), k),
                      !.vy = @ + FxMul(FxMul(Fx(1, 100), Fx(3, 10)),
                                       CosHalf(phaseHalf + index))]

PulseAmbientResult(ns, opt, phaseHalf) ==
    LET anchorNodeId == IF opt.anchorNodeId = Null THEN Streamline
                        ELSE opt.anchorNodeId
    IN  [i \in 1..Len(ns) |-> PulseOn(ns[i], i - 1, phaseHalf, anchorNodeId)]

\* ------------------------------------------------------- force.js: getState

\* No getState() value is held.
NoSnap == [has |-> FALSE]

\* getState(): alpha and running are values, options is a copy; new Map(nodes)
\* is a new Map of the same node objects and [...links] a new array of the
\* same link objects.  live is the set of ids whose object in the returned
\* Map is the object the engine's Map holds; linksLive tells the same of the
\* link objects.
GetStateResult(a, sc, opt, ns, lks) ==
    [has |-> TRUE, alpha |-> a, running |-> sc.running, options |-> opt,
     nodes |-> ns, live |-> {ns[i].id : i \in 1..Len(ns)},
     links |-> lks, linksLive |-> TRUE]

\* The held value after the engine changed its node objects in place.
SnapSeesNodes(s, ns) ==
    IF ~s.has THEN s
    ELSE [s EXCEPT !.nodes = [i \in 1..Len(s.nodes) |->
                                IF s.nodes[i].id \in s.live
                                THEN NodesGet(ns, s.nodes[i].id)
                                ELSE s.nodes[i]]]

\* The held value after setNodes replaced every node object.
SnapAfterSetNodes(s) == IF ~s.has THEN s ELSE [s EXCEPT !.live = {}]

\* The held value after setEdges replaced every link object.
SnapAfterSetEdges(s) == IF ~s.has THEN s ELSE [s EXCEPT !.linksLive = FALSE]

\* ---------------------------------------------------- createForceSimulation

\* createForceSimulation(initialOptions): the closure's variables
SimInit(initialOptions) ==
    /\ options = MergeOptions(FORCE_DEFAULTS, initialOptions)
    /\ alpha = MergeOptions(FORCE_DEFAULTS, initialOptions).alpha
    /\ nodes = <<>>
    /\ links = <<>>
    /\ frameId = Null
    /\ running = FALSE
    /\ onTick = Null
    /\ rafPending = {}
    /\ pc = "host"
    /\ snap = NoSnap
    /\ last = [op |-> "create"]

\* ------------------------------------------------------------ layout: the calls

MaxLNodes == 3

MaxLEdges == 3

NoPosition == [has |-> FALSE, x |-> 0, y |-> 0]

Position(x, y) == [has |-> TRUE, x |-> x, y |-> y]

NoSize == [width |-> 0, height |-> 0]

\* A node of the caller: id, _needsLayout (flag), position and the sizes.
LNode(id, flag, position) ==
    [id |-> id, flag |-> flag, position |-> position, measured |-> NoSize,
     width |-> 0, height |-> 0, initialWidth |-> 0, initialHeight |-> 0]

SeqsUpTo(S, n) == UNION {[1..k -> S] : k \in 0..n}

\* Edge lists between the ids 1..n, and to and from n + 1, the id of no node.
EdgeLists(n, maxLen) ==
    SeqsUpTo([source : 1..n, target : 1..n]
                \cup {[source |-> n + 1, target |-> 1], [source |-> 1, target |-> n + 1]},
             maxLen)

NotCalled ==
    [called |-> FALSE, computed |-> FALSE, threw |-> FALSE, returned |-> <<>>,
     ranks |-> <<>>, visited |-> {}, calls |-> 0, back |-> {},
     backRaised |-> {}, layers |-> <<>>, positions |-> <<>>]

\* Ranking: every node needs layout, every edge list.
RankInit ==
    /\ \E n \in 0..MaxLNodes :
         /\ lnodes = [i \in 1..n |-> LNode(i, "true", NoPosition)]
         /\ ledges \in EdgeLists(n, MaxLEdges)
    /\ lopts = <<>>
    /\ lout = NotCalled
    /\ SimInit(<<>>)
    /\ steps = Null

MaxFlagNodes == 2

MaxFlagEdges == 1

\* The positions a caller's node comes with.
LPositions == {NoPosition, Position(7, 9)}

\* Flags and positions: up to MaxFlagNodes nodes, every _needsLayout value
\* with every position, the lists of up to MaxFlagEdges edges between the
\* nodes, two option records.
LayoutInit ==
    /\ \E n \in 1..MaxFlagNodes :
         /\ \E flag \in [1..n -> {"true", "false", "unset"}],
               pos \in [1..n -> LPositions] :
                 lnodes = [i \in 1..n |-> LNode(i, flag[i], pos[i])]
         /\ ledges \in SeqsUpTo([source : 1..n, target : 1..n], MaxFlagEdges)
    /\ lopts \in {<<>>, [direction |-> "RL", alignment |-> "start"]}
    /\ lout = NotCalled
    /\ SimInit(<<>>)
    /\ steps = Null

LayoutNodes ==
    /\ ~lout.called
    /\ lout' = LayoutNodesResult(lnodes, ledges, lopts)
    /\ UNCHANGED <<lnodes, ledges, lopts>>
    /\ UNCHANGED svars

LayoutNext == LayoutNodes

MaxPlaceNodes == 3

MaxPlaceEdges == 2

\* A node of the caller with its own width and height.
SizedNode(id, width, height) ==
    [LNode(id, "true", NoPosition) EXCEPT !.width = width, !.height = height]

\* Placement: every node needs layout; the nodes are all of the default size
\* or each of its own size; every edge list, every direction.
PlaceInit ==
    /\ \E n \in 1..MaxPlaceNodes :
         /\ lnodes \in {[i \in 1..n |-> LNode(i, "true", NoPosition)],
                        [i \in 1..n |-> SizedNode(i, 60 + 20 * i, 20 + 10 * i)]}
         /\ ledges \in EdgeLists(n, MaxPlaceEdges)
    /\ lopts \in {[direction |-> d] : d \in {"TB", "BT", "LR", "RL"}}
    /\ lout = NotCalled
    /\ SimInit(<<>>)
    /\ steps = Null

PlaceSpec == PlaceInit /\ [][LayoutNext]_vars

RankSpec == RankInit /\ [][LayoutNext]_vars

LayoutSpec == LayoutInit /\ [][LayoutNext]_vars

\* ------------------------------------------------- index.js: the host component

\* normalizeNode(node): a node without a position gets {x: 0, y: 0}, and
\* _needsLayout is the configured flag or, without one, !hasPosition.
NormalizeNode(node) ==
    LET hasPosition == node.position.has
    IN  [node EXCEPT
            !.position = IF hasPosition THEN node.position ELSE Position(0, 0),
            !.flag = IF node.flag # "unset" THEN node.flag
                     ELSE IF hasPosition THEN "false" ELSE "true"]

\* nodes: config.nodes ? config.nodes.map(normalizeNode) : []
NormalizeNodes(ns) == [i \in 1..Len(ns) |-> NormalizeNode(ns[i])]

NotHidden(item) == ~item.hidden

\* .map((n) => ({ ...n, _needsLayout: true }))
MarkNeedsLayout(node) == [node EXCEPT !.flag = "true"]

\* _applyAutoLayout: the visible nodes, each marked _needsLayout: true, and
\* the visible edges go through layoutNodes; the positions it returns are
\* merged back into this.nodes.
ApplyAutoLayoutResult(ns, edges, autoLayout) ==
    IF ~autoLayout.truthy THEN [done |-> TRUE, nodes |-> ns, laid |-> NotCalled]
    ELSE LET opts == IF autoLayout.object THEN autoLayout.opts ELSE <<>>
             shown == SelectSeq(ns, NotHidden)
             visibleNodes == [i \in 1..Len(shown) |-> MarkNeedsLayout(shown[i])]
             visibleEdges == SelectSeq(edges, NotHidden)
             laid == LayoutNodesResult(visibleNodes, visibleEdges, opts)
             posMap == NodeIds(laid.returned)
         IN  [done |-> TRUE,
              nodes |-> [i \in 1..Len(ns) |->
                            IF ns[i].id \in posMap
                            THEN [ns[i] EXCEPT !.position =
                                     NodeById(laid.returned, ns[i].id).position]
                            ELSE ns[i]],
              laid |-> laid]

\* A node of the host's configuration: no _needsLayout, a position or none,
\* hidden or not.
HNode(id, position, hidden) ==
    [id |-> id, flag |-> "unset", position |-> position, hidden |-> hidden,
     measured |-> NoSize, width |-> 0, height |-> 0,
     initialWidth |-> 0, initialHeight |-> 0]

\* options.autoLayout: false, true, or an object of layout options
AutoLayoutArgs ==
    {[truthy |-> FALSE, object |-> FALSE, opts |-> <<>>],
     [truthy |-> TRUE, object |-> FALSE, opts |-> <<>>],
     [truthy |-> TRUE, object |-> TRUE, opts |-> [direction |-> "LR"]]}

MaxHNodes == 2

MaxHEdges == 1

HostNotDone == [done |-> FALSE, nodes |-> <<>>, laid |-> NotCalled]

\* alpineFlow(config): lnodes, ledges and lopts hold config.nodes,
\* config.edges and config.options.autoLayout.
HostInit ==
    /\ \E n \in 1..MaxHNodes :
         /\ \E pos \in [1..n -> LPositions], hid \in [1..n -> BOOLEAN] :
                 lnodes = [i \in 1..n |-> HNode(i, pos[i], hid[i])]
         /\ ledges \in SeqsUpTo([source : 1..n, target : 1..n, hidden : BOOLEAN],
                                MaxHEdges)
    /\ lopts \in AutoLayoutArgs
    /\ lout = HostNotDone
    /\ SimInit(<<>>)
    /\ steps = Null

\* init(): this._applyAutoLayout() on the normalized nodes
HostAutoLayout ==
    /\ ~lout.done
    /\ lout' = ApplyAutoLayoutResult(NormalizeNodes(lnodes), ledges, lopts)
    /\ UNCHANGED <<lnodes, ledges, lopts>>
    /\ UNCHANGED svars

HostNext == HostAutoLayout

HostSpec == HostInit /\ [][HostNext]_vars

\* ------------------------------------------------- force.js: the operations

MaxSteps == 5

\* One more operation; a counted run has at most MaxSteps of them.
CountTo(max) ==
    IF steps = Null THEN steps' = steps
    ELSE steps < max /\ steps' = steps + 1

Count == CountTo(MaxSteps)

\* The scheduling variables take the values of the record sc; no more than
\* MaxPending requests are outstanding.
SchedBecomes(sc) ==
    /\ Cardinality(sc.rafPending) <= MaxPending
    /\ running' = sc.running
    /\ frameId' = sc.frameId
    /\ rafPending' = sc.rafPending
    /\ onTick' = sc.onTick

\* The engine's node objects change in place: a held getState() value that
\* shares them sees the change.
NodesBecome(ns) ==
    /\ nodes' = ns
    /\ snap' = SnapSeesNodes(snap, ns)

\* The tick callbacks of the host.
Callbacks == {1, 2}

\* The arguments the host calls with.
AlphaArgs == {0, Fx(1, 1000), Fx(2, 10)}

OptionArgs ==
    {[alphaTarget |-> 0], [alpha |-> Fx(1, 10)], [alphaDecay |-> Fx(5, 10)],
     [centerX |-> Fx(20, 1), collisionRadius |-> Fx(5, 1)]}

CoordArgs == {<<Fx(0 - 10, 1), Fx(5, 1)>>, <<Fx(60, 1), 0>>}

SimNode(id, position) == [position |-> position, id |-> id]

NodeListArgs ==
    {<<>>,
     <<SimNode(1, NoPosition)>>,
     <<SimNode(1, Position(Fx(30, 1), 0)), SimNode(2, Position(0, Fx(40, 1)))>>,
     <<SimNode(2, NoPosition), SimNode(Streamline, NoPosition), SimNode(1, NoPosition)>>}

EdgeListArgs ==
    {<<>>,
     <<[source |-> 1, target |-> 2]>>,
     <<[source |-> 2, target |-> Streamline], [source |-> 1, target |-> 3]>>}

\* The two values (Math.random() - 0.5) * 0.01 a charge step draws.  The step
\* draws them for a pair at the same place only; the steps before it change
\* no position, so the nodes tick starts with tell whether it will.
DrawsJitter(ns, opt) ==
    /\ opt.chargeStrength # 0
    /\ \E i, j \in 1..Len(ns) : i < j /\ ns[i].x = ns[j].x /\ ns[i].y = ns[j].y

Jitters(ns, opt) ==
    IF DrawsJitter(ns, opt)
    THEN {<<0, 0>>, <<Fx(4, 1000), 0 - Fx(3, 1000)>>, <<0 - Fx(5, 1000), Fx(1, 1000)>>}
    ELSE {<<0, 0>>}

SetOptions(nextOptions) ==
    /\ Count
    /\ options' = MergeOptions(options, nextOptions)
    /\ alpha' = SetOptionsAlpha(alpha, nextOptions)
    /\ last' = [op |-> "setOptions", arg |-> nextOptions]
    /\ UNCHANGED <<nodes, links, frameId, running, onTick, rafPending, pc, snap>>
    /\ UNCHANGED lvars

SetNodes(nodeList) ==
    /\ Count
    /\ nodes' = SetNodesResult(nodes, nodeList)
    /\ snap' = SnapAfterSetNodes(snap)
    /\ last' = [op |-> "setNodes", list |-> nodeList]
    /\ UNCHANGED <<options, alpha, links, frameId, running, onTick, rafPending, pc>>
    /\ UNCHANGED lvars

SetEdges(edgeList) ==
    /\ Count
    /\ links' = SetEdgesResult(nodes, edgeList)
    /\ snap' = SnapAfterSetEdges(snap)
    /\ last' = [op |-> "setEdges", list |-> edgeList]
    /\ UNCHANGED <<options, alpha, nodes, frameId, running, onTick, rafPending, pc>>
    /\ UNCHANGED lvars

Reheat(nextAlphaTarget) ==
    /\ Count
    /\ alpha' = ReheatAlpha(alpha, nextAlphaTarget)
    /\ options' = ReheatOptions(options, nextAlphaTarget)
    /\ SchedBecomes(ReheatSched(Sched))
    /\ last' = [op |-> "reheat", arg |-> nextAlphaTarget, wasRunning |-> running]
    /\ UNCHANGED <<nodes, links, pc, snap>>
    /\ UNCHANGED lvars

SetAlphaTarget(nextAlphaTarget) ==
    /\ Count
    /\ options' = SetAlphaTargetOptions(options, nextAlphaTarget)
    /\ SchedBecomes(SetAlphaTargetSched(Sched, alpha,
                        SetAlphaTargetOptions(options, nextAlphaTarget)))
    /\ last' = [op |-> "setAlphaTarget", arg |-> nextAlphaTarget]
    /\ UNCHANGED <<alpha, nodes, links, pc, snap>>
    /\ UNCHANGED lvars

SetAlpha(nextAlpha) ==
    /\ Count
    /\ alpha' = SetAlphaResult(nextAlpha)
    /\ last' = [op |-> "setAlpha"]
    /\ UNCHANGED <<options, nodes, links, frameId, running, onTick, rafPending, pc, snap>>
    /\ UNCHANGED lvars

Stop ==
    /\ Count
    /\ SchedBecomes(StopResult(Sched))
    /\ last' = [op |-> "stop"]
    /\ UNCHANGED <<options, alpha, nodes, links, pc, snap>>
    /\ UNCHANGED lvars

\* start(tickCallback); tickCallback = Null is a call without argument.
Start(tickCallback) ==
    /\ Count
    /\ SchedBecomes(StartResult(Sched, tickCallback))
    /\ last' = [op |-> "start", arg |-> tickCallback, wasRunning |-> running]
    /\ UNCHANGED <<options, alpha, nodes, links, pc, snap>>
    /\ UNCHANGED lvars

PinNode(id, x, y) ==
    /\ Count
    /\ LET Pin(node) == PinResult(node, x, y) IN NodesBecome(OnNode(nodes, id, Pin))
    /\ last' = [op |-> "pinNode", id |-> id, x |-> x, y |-> y]
    /\ UNCHANGED <<options, alpha, links, frameId, running, onTick, rafPending, pc>>
    /\ UNCHANGED lvars

MovePinnedNode(id, x, y) ==
    /\ Count
    /\ LET Move(node) == MovePinnedResult(node, x, y) IN NodesBecome(OnNode(nodes, id, Move))
    /\ last' = [op |-> "movePinnedNode", id |-> id, x |-> x, y |-> y]
    /\ UNCHANGED <<options, alpha, links, frameId, running, onTick, rafPending, pc>>
    /\ UNCHANGED lvars

UnpinNode(id) ==
    /\ Count
    /\ NodesBecome(OnNode(nodes, id, UnpinResult))
    /\ last' = [op |-> "unpinNode", id |-> id]
    /\ UNCHANGED <<options, alpha, links, frameId, running, onTick, rafPending, pc>>
    /\ UNCHANGED lvars

\* tick() called by the host, dt = 1, in a run of at most max operations
TickWithin(max) ==
    /\ CountTo(max)
    /\ \E jitter \in Jitters(nodes, options) :
         \E r \in {TickResult(alpha, nodes, links, options, Scale, jitter)} :
            /\ alpha' = r.alpha
            /\ NodesBecome(r.nodes)
    /\ last' = [op |-> "tick"]
    /\ UNCHANGED <<options, links, frameId, running, onTick, rafPending, pc>>
    /\ UNCHANGED lvars

Tick == TickWithin(MaxSteps)

\* tick(dt) called by the host with a dt of its own
TickDt(dt) ==
    /\ Count
    /\ \E jitter \in Jitters(nodes, options) :
         \E r \in {TickResult(alpha, nodes, links, options, dt, jitter)} :
            /\ alpha' = r.alpha
            /\ NodesBecome(r.nodes)
    /\ last' = [op |-> "tick", dt |-> dt]
    /\ UNCHANGED <<options, links, frameId, running, onTick, rafPending, pc>>
    /\ UNCHANGED lvars

PulseAmbient(phaseHalf) ==
    /\ Count
    /\ NodesBecome(PulseAmbientResult(nodes, options, phaseHalf))
    /\ last' = [op |-> "pulseAmbient"]
    /\ UNCHANGED <<options, alpha, links, frameId, running, onTick, rafPending, pc>>
    /\ UNCHANGED lvars

\* The browser runs the callback of the request h: loop, up to the call of
\* onTick (whose argument, getState(), the callback does not keep), and to
\* its end when no callback is registered.
Frame(h) ==
    /\ Count
    /\ pc = "host"
    /\ h \in rafPending
    /\ LET sc == [Sched EXCEPT !.rafPending = @ \ {h}] IN
       IF ~LoopRuns(sc)
       THEN /\ SchedBecomes(sc)
            /\ last' = [op |-> "frame", ticked |-> FALSE, called |-> FALSE]
            /\ UNCHANGED <<alpha, nodes, snap, pc>>
       ELSE \E jitter \in Jitters(nodes, options) :
            \E r \in {TickResult(alpha, nodes, links, options, Scale, jitter)} :
            /\ alpha' = r.alpha
            /\ NodesBecome(r.nodes)
            /\ IF sc.onTick # Null
               THEN /\ pc' = "callback"
                    /\ SchedBecomes(sc)
                    /\ last' = [op |-> "frame", ticked |-> TRUE, called |-> TRUE]
               ELSE /\ pc' = "host"
                    /\ SchedBecomes(LoopTail(sc, r.alpha, options))
                    /\ last' = [op |-> "frame", ticked |-> TRUE, called |-> FALSE]
    /\ UNCHANGED <<options, links>>
    /\ UNCHANGED lvars

\* onTick returns: the rest of loop
CallbackReturn ==
    /\ Count
    /\ pc = "callback"
    /\ pc' = "host"
    /\ SchedBecomes(LoopTail(Sched, alpha, options))
    /\ last' = [op |-> "frameEnd"]
    /\ UNCHANGED <<options, alpha, nodes, links, snap>>
    /\ UNCHANGED lvars

\* The host calls getState() and keeps the value.
GetState ==
    /\ Count
    /\ snap' = GetStateResult(alpha, Sched, options, nodes, links)
    /\ last' = [op |-> "getState"]
    /\ UNCHANGED <<options, alpha, nodes, links, frameId, running, onTick, rafPending, pc>>
    /\ UNCHANGED lvars

\* The host writes to the value it holds: state.nodes.get(id).x = x
WriteSnapNode(i, x) ==
    /\ Count
    /\ snap.has
    /\ i \in 1..Len(snap.nodes)
    /\ snap' = [snap EXCEPT !.nodes[i].x = x]
    /\ nodes' = IF snap.nodes[i].id \in snap.live
                THEN [nodes EXCEPT ![SeqIndex(nodes, snap.nodes[i].id)].x = x]
                ELSE nodes
    /\ last' = [op |-> "write"]
    /\ UNCHANGED <<options, alpha, links, frameId, running, onTick, rafPending, pc>>
    /\ UNCHANGED lvars

\* state.links[i].target = id
WriteSnapLink(i, id) ==
    /\ Count
    /\ snap.has
    /\ i \in 1..Len(snap.links)
    /\ snap' = [snap EXCEPT !.links[i].target = id]
    /\ links' = IF snap.linksLive THEN [links EXCEPT ![i].target = id] ELSE links
    /\ last' = [op |-> "write"]
    /\ UNCHANGED <<options, alpha, nodes, frameId, running, onTick, rafPending, pc>>
    /\ UNCHANGED lvars

\* state.alpha = a; state.options.alphaTarget = a; state.nodes.delete(id)
WriteSnapValues(a, i) ==
    /\ Count
    /\ snap.has
    /\ i \in 1..Len(snap.nodes)
    /\ snap' = [snap EXCEPT !.alpha = a, !.options.alphaTarget = a,
                            !.nodes = SubSeq(@, 1, i - 1) \o SubSeq(@, i + 1, Len(@))]
    /\ last' = [op |-> "write"]
    /\ UNCHANGED <<options, alpha, nodes, links, frameId, running, onTick, rafPending, pc>>
    /\ UNCHANGED lvars

\* ------------------------------------------------------ force.js: the engine

\* No layoutNodes call is part of an engine run.
NoLayoutCall ==
    /\ lnodes = <<>>
    /\ ledges = <<>>
    /\ lopts = <<>>
    /\ lout = NotCalled

\* The life cycle: a new engine, with the default options or a faster decay;
\* the host starts and stops it, sets alpha and the options, registers nodes,
\* and does so between frames or from inside its tick callback.
Init ==
    /\ NoLayoutCall
    /\ \E initialOptions \in {<<>>, [alphaDecay |-> Fx(5, 10)]} : SimInit(initialOptions)
    /\ steps = 0

Next ==
    \/ \E tickCallback \in Callbacks \cup {Null} : Start(tickCallback)
    \/ Stop
    \/ \E a \in AlphaArgs : Reheat(a)
    \/ \E a \in AlphaArgs : SetAlphaTarget(a)
    \/ \E a \in AlphaArgs : SetAlpha(a)
    \/ \E o \in OptionArgs : SetOptions(o)
    \/ \E l \in {<<>>, <<SimNode(1, NoPosition)>>} : SetNodes(l)
    \/ \E h \in Handles : Frame(h)
    \/ CallbackReturn

Spec == Init /\ [][Next]_vars

\* Pins: a new engine; the host registers nodes and links, pins, moves and
\* unpins nodes, and lets the simulation step, by tick() and by the loop.
PinInit ==
    /\ NoLayoutCall
    /\ SimInit(<<>>)
    /\ steps = 0

\* The ids the host pins: one that NodeListArgs registers, one that nothing does.
PinIds == {1, 3}

PinNext ==
    \/ \E l \in {l \in NodeListArgs : Len(l) > 1} : SetNodes(l)
    \/ \E l \in EdgeListArgs \ {<<>>} : SetEdges(l)
    \/ \E o \in {[alpha |-> Fx(1, 10)],
                 [centerX |-> Fx(20, 1), collisionRadius |-> Fx(5, 1)]} : SetOptions(o)
    \/ Reheat(Fx(2, 10))
    \/ SetAlphaTarget(Fx(1, 10))
    \/ SetAlpha(0)
    \/ \E id \in PinIds, xy \in CoordArgs : PinNode(id, xy[1], xy[2])
    \/ \E id \in PinIds : MovePinnedNode(id, Fx(5, 1), Fx(5, 1))
    \/ \E id \in PinIds : UnpinNode(id)
    \/ PulseAmbient(3)
    \/ Tick
    \/ \E h \in Handles : Frame(h)

PinSpec == PinInit /\ [][PinNext]_vars

\* Cooling: an engine the host created, gave its nodes and started, and then
\* leaves alone.  alphaTarget <= alphaMin and 0 < alphaDecay <= 1.
QuietInit ==
    /\ NoLayoutCall
    /\ \E decay \in {Fx(4, 100), Fx(5, 10), Scale},
          target \in {0, FORCE_DEFAULTS.alphaMin},
          l \in {<<>>, <<SimNode(1, Position(Fx(1, 10), 0))>>},
          tickCallback \in {Null, 1} :
            /\ options = MergeOptions(FORCE_DEFAULTS,
                                      [alphaDecay |-> decay, alphaTarget |-> target])
            /\ alpha = FORCE_DEFAULTS.alpha
            /\ nodes = SetNodesResult(<<>>, l)
            /\ onTick = tickCallback
            /\ last = [op |-> "start", arg |-> tickCallback, wasRunning |-> FALSE]
    /\ links = <<>>
    /\ running = TRUE
    /\ frameId = 1
    /\ rafPending = {1}
    /\ pc = "host"
    /\ snap = NoSnap
    /\ steps = Null

QuietNext ==
    \/ \E h \in Handles : Frame(h)
    \/ CallbackReturn

\* The browser runs every requested frame, and a callback returns.
QuietFair ==
    /\ WF_vars(\E h \in Handles : Frame(h))
    /\ WF_vars(CallbackReturn)

QuietSpec == QuietInit /\ [][QuietNext]_vars /\ QuietFair

\* Snapshots: a new engine; the host registers nodes and links, pins, ticks
\* and sets values, calls getState() and writes to the value it got.
SnapInit ==
    /\ NoLayoutCall
    /\ SimInit(<<>>)
    /\ steps = 0

SnapNext ==
    \/ \E l \in {l \in NodeListArgs : Len(l) = 2} : SetNodes(l)
    \/ \E l \in {l \in EdgeListArgs : Len(l) = 1} : SetEdges(l)
    \/ SetOptions([alphaTarget |-> Fx(1, 10)])
    \/ SetAlpha(Fx(1, 10))
    \/ \E xy \in CoordArgs : PinNode(1, xy[1], xy[2])
    \/ Tick
    \/ GetState
    \/ \E i \in 1..2 : WriteSnapNode(i, Fx(7, 1))
    \/ WriteSnapLink(1, 1)
    \/ \E i \in 1..2 : WriteSnapValues(Fx(5, 10), i)

SnapSpec == SnapInit /\ [][SnapNext]_vars

\* A settled engine: created with alpha = alphaTarget = alphaMin; the host
\* registers nodes and links, pins, pulses and calls tick().
SettledInit ==
    /\ NoLayoutCall
    /\ SimInit([alpha |-> FORCE_DEFAULTS.alphaMin,
                alphaTarget |-> FORCE_DEFAULTS.alphaMin])
    /\ steps = 0

SettledNext ==
    \/ \E l \in NodeListArgs \ {<<>>} : SetNodes(l)
    \/ \E l \in EdgeListArgs \ {<<>>} : SetEdges(l)
    \/ \E xy \in CoordArgs : PinNode(1, xy[1], xy[2])
    \/ PulseAmbient(3)
    \/ Tick

SettledSpec == SettledInit /\ [][SettledNext]_vars

\* Coincident nodes: the host creates an engine, registers two nodes at one
\* place, with or without a link between them, and calls tick() MaxTicks
\* times.
MaxTicks == 50

CoincideOptions ==
    {<<>>, [collisionRadius |-> 0], [collisionRadius |-> 0, alpha |-> 0]}

CoincideInit ==
    /\ NoLayoutCall
    /\ \E o \in CoincideOptions, at \in {NoPosition, Position(Fx(30, 1), Fx(0 - 7, 1))},
          l \in {<<>>, <<[source |-> 1, target |-> 2]>>} :
            /\ options = MergeOptions(FORCE_DEFAULTS, o)
            /\ alpha = MergeOptions(FORCE_DEFAULTS, o).alpha
            /\ nodes = SetNodesResult(<<>>, <<SimNode(1, at), SimNode(2, at)>>)
            /\ links = SetEdgesResult(
                          SetNodesResult(<<>>, <<SimNode(1, at), SimNode(2, at)>>), l)
    /\ frameId = Null
    /\ running = FALSE
    /\ onTick = Null
    /\ rafPending = {}
    /\ pc = "host"
    /\ snap = NoSnap
    /\ last = [op |-> "setEdges", list |-> <<>>]
    /\ steps = 0

CoincideNext == TickWithin(MaxTicks)

\* The host makes every one of its MaxTicks calls: while calls are left, the
\* count of calls goes up.
NextCall == steps < MaxTicks /\ steps' = steps + 1

CoincideSpec == CoincideInit /\ [][CoincideNext]_vars /\ WF_steps(NextCall)

\* Reheating: a new engine, with the default decay or one that cools in one
\* tick; the host registers a node, starts and stops the loop, reheats, sets
\* alpha to 0 and lowers alphaTarget, between frames or from inside its tick
\* callback.  alphaTarget is above alphaMin only by a reheat.
CoolingInit ==
    /\ NoLayoutCall
    /\ \E initialOptions \in {<<>>, [alphaDecay |-> Scale]} : SimInit(initialOptions)
    /\ steps = 0

CoolingNext ==
    \/ SetNodes(<<SimNode(1, NoPosition)>>)
    \/ \E tickCallback \in {Null, 1} : Start(tickCallback)
    \/ Stop
    \/ \E a \in {Fx(1, 1000), Fx(2, 10)} : Reheat(a)
    \/ SetAlpha(0)
    \/ SetAlphaTarget(0)
    \/ SetOptions([alphaTarget |-> 0])
    \/ \E h \in Handles : Frame(h)
    \/ CallbackReturn

CoolingSpec == CoolingInit /\ [][CoolingNext]_vars

\* Collisions: a new engine with the default collisionRadius or a smaller
\* one; the host registers two or three nodes, pins and unpins them, sets
\* alpha to 0 and calls tick with dt = 1 and dt = 0.5.
CollideInit ==
    /\ NoLayoutCall
    /\ \E initialOptions \in {<<>>, [collisionRadius |-> Fx(30, 1)]} :
          SimInit(initialOptions)
    /\ steps = 0

CollideNext ==
    \/ \E l \in {l \in NodeListArgs : Len(l) > 1} : SetNodes(l)
    \/ \E id \in {1, 2}, xy \in CoordArgs : PinNode(id, xy[1], xy[2])
    \/ UnpinNode(1)
    \/ SetAlpha(0)
    \/ \E dt \in {Scale, Fx(5, 10)} : TickDt(dt)

CollideSpec == CollideInit /\ [][CollideNext]_vars

\* A settled engine: created with alpha and alphaTarget at alphaMin or under
\* it; the host registers nodes, pulses them, and starts the loop, with a
\* tick callback or without one; the callback calls nothing.
RestInit ==
    /\ NoLayoutCall
    /\ \E initialOptions \in {[alpha |-> 0],
                               [alpha |-> FORCE_DEFAULTS.alphaMin,
                                alphaTarget |-> FORCE_DEFAULTS.alphaMin]} :
          SimInit(initialOptions)
    /\ steps = 0

RestNext ==
    \/ \E l \in NodeListArgs \ {<<>>} : SetNodes(l)
    \/ PulseAmbient(3)
    \/ \E tickCallback \in {Null, 1} : pc = "host" /\ Start(tickCallback)
    \/ \E h \in Handles : Frame(h)
    \/ CallbackReturn

RestSpec == RestInit /\ [][RestNext]_vars

\* Alpha: a new engine with the default options; the host registers a node
\* and calls the operations that read or write alpha.
AlphaInit ==
    /\ NoLayoutCall
    /\ SimInit(<<>>)
    /\ steps = 0

AlphaNext ==
    \/ SetNodes(<<SimNode(1, NoPosition)>>)
    \/ Tick
    \/ \E a \in {Fx(2, 10), Fx(5, 10)} : Reheat(a)
    \/ \E a \in {0 - Fx(1, 10), Fx(5, 10)} : SetAlpha(a)
    \/ \E a \in {0 - Fx(1, 10), Fx(1, 10)} : SetAlphaTarget(a)
    \/ \E o \in {[alpha |-> Fx(4, 10)], [alphaDecay |-> Fx(5, 10)]} : SetOptions(o)
    \/ Start(Null)
    \/ Stop
    \/ \E h \in Handles : Frame(h)

AlphaSpec == AlphaInit /\ [][AlphaNext]_vars

\* Registration: a new engine; the host registers node and edge lists in any
\* order, pins, ticks and calls getState().
RegInit ==
    /\ NoLayoutCall
    /\ SimInit(<<>>)
    /\ steps = 0

\* The lists of NodeListArgs, and one with two ids none of them has together.
RegNodeLists ==
    NodeListArgs
        \cup {<<SimNode(3, Position(Fx(5, 1), Fx(5, 1))), SimNode(2, NoPosition)>>}

RegNext ==
    \/ \E l \in RegNodeLists : SetNodes(l)
    \/ \E l \in EdgeListArgs : SetEdges(l)
    \/ \E xy \in CoordArgs : PinNode(1, xy[1], xy[2])
    \/ Tick
    \/ GetState

RegSpec == RegInit /\ [][RegNext]_vars

\* Numbers that are not finite: a new engine; the host calls the operations
\* that take numbers, with NaN and with finite numbers.
NonFiniteArgs == {NaN, Fx(5, 1)}

NonFiniteInit ==
    /\ NoLayoutCall
    /\ SimInit(<<>>)
    /\ steps = 0

NonFiniteNext ==
    \/ \E x, y \in NonFiniteArgs :
          SetNodes(<<SimNode(1, Position(x, y)), SimNode(2, NoPosition)>>)
    \/ \E x, y \in NonFiniteArgs : PinNode(1, x, y)
    \/ \E x, y \in NonFiniteArgs : MovePinnedNode(2, x, y)
    \/ \E a \in {NaN, Fx(1, 10)} : SetAlpha(a)
    \/ \E a \in {NaN, Fx(1, 10)} : SetAlphaTarget(a)
    \/ \E a \in {NaN, Fx(1, 10)} : Reheat(a)
    \/ \E a \in {NaN, Fx(1, 10)} : SetOptions([alpha |-> a])

NonFiniteSpec == NonFiniteInit /\ [][NonFiniteNext]_vars

\* ------------------------------------------------------------ layout: claims

\* The edges layoutNodes keeps, as pairs, and those ranking did not treat as
\* back edges.
KeptEdges ==
    {<<ledges[i].source, ledges[i].target>> :
        i \in {j \in 1..Len(ledges) : EdgeKept(lnodes, ledges[j])}}

NonBackEdges == KeptEdges \ lout.back

\* C4: the rank of every node is the maximum over its incoming non-back edges
\* of (rank of the predecessor + 1), and 0 when it has none; so every non-back
\* edge u -> v has rank(v) >= rank(u) + 1.
C4_RankIsLongestPath ==
    lout.computed =>
        /\ \A v \in NodeIds(lnodes) :
              lout.ranks[v] =
                  SetMax({lout.ranks[e[1]] + 1 : e \in {d \in NonBackEdges : d[2] = v}}
                         \cup {0}, 0)
        /\ \A e \in NonBackEdges : lout.ranks[e[2]] >= lout.ranks[e[1]] + 1

\* C5: layoutNodes returns for every node and edge list (cycles, self-loops,
\* no root, several components); on return every node was visited and holds a
\* rank, after at most one dfs call per node and per kept edge.
C5_AllVisitedAndRanked ==
    (lout.called /\ NeedsLayoutSet(lnodes) # {}) =>
        /\ lout.computed
        /\ lout.visited = NodeIds(lnodes)
        /\ DOMAIN lout.ranks = NodeIds(lnodes)
        /\ \A id \in NodeIds(lnodes) : lout.ranks[id] \in Nat
        /\ lout.calls <= Len(lnodes) + Cardinality(KeptEdges)
        /\ Len(lout.returned) = Len(lnodes)

\* A graph with no root and more than one component, one of them a self-loop.
C5_Witness ==
    /\ lout.computed
    /\ \A id \in NodeIds(lnodes) : \E e \in KeptEdges : e[2] = id
    /\ \E id \in NodeIds(lnodes) :
          /\ <<id, id>> \in KeptEdges
          /\ \A e \in KeptEdges : (e[1] = id \/ e[2] = id) => e = <<id, id>>
    /\ \E e \in lout.back : e[1] # e[2]

\* C1: a node whose _needsLayout flag is false is returned unmodified, whatever
\* edges touch it and whatever other nodes need layout.
C1_FixedNodesUntouched ==
    lout.called =>
        /\ Len(lout.returned) = Len(lnodes)
        /\ \A i \in 1..Len(lnodes) :
              lnodes[i].flag = "false" => lout.returned[i] = lnodes[i]

\* A fixed node with an edge to a node that was laid out, in a call that
\* gave the fixed node's slot a position other than the one it keeps.
C1_Witness ==
    /\ lout.computed
    /\ \E i, j \in 1..Len(lnodes) :
          /\ lnodes[i].flag = "false"
          /\ <<lnodes[i].id, lnodes[j].id>> \in KeptEdges
          /\ lout.returned[j] # lnodes[j]
          /\ [has |-> TRUE, x |-> lout.positions[lnodes[i].id].x,
              y |-> lout.positions[lnodes[i].id].y] # lnodes[i].position

\* ---------------------------------------------------- the engine: life cycle

\* C3: once stop() has returned and until start, reheat or setAlphaTarget
\* resumes the engine, no frame ticks and no frame invokes the tick callback:
\* a frame that fires while the engine is not running does neither.
C3_NoTickWhileStopped ==
    [][(~running /\ last'.op = "frame") => (~last'.ticked /\ ~last'.called)]_vars

\* A request outlived stop() (stop() was called inside the callback, and loop
\* requested the next frame after the callback returned); its frame fired on
\* the stopped engine and did nothing.
C3_Witness ==
    /\ last.op = "frame"
    /\ ~last.ticked
    /\ ~running

\* start(tickCallback): the callback the call leaves registered
StartCallback == IF last'.arg # Null THEN last'.arg ELSE onTick

\* start on an Idle engine
StartFromIdle ==
    /\ running'
    /\ frameId' \in rafPending' \ rafPending
    /\ rafPending' = rafPending \cup {frameId'}

\* C6 as claimed: start on an Idle engine makes it Running and schedules
\* exactly one frame; start on a Running engine changes no engine state.
C6_StartOnRunningIsNoOp ==
    [][last'.op = "start" =>
         IF ~running THEN StartFromIdle
         ELSE UNCHANGED <<options, alpha, nodes, links, frameId, running, onTick,
                          rafPending>>]_vars

\* C6 amended: start on an Idle engine makes it Running and schedules exactly
\* one frame; start on a Running engine schedules no frame and changes no
\* engine state except the registered tick callback, which becomes the
\* callback passed, if one is passed.
C6_StartOnRunningKeepsLoop ==
    [][last'.op = "start" =>
         /\ onTick' = StartCallback
         /\ IF ~running THEN StartFromIdle
            ELSE UNCHANGED <<options, alpha, nodes, links, frameId, running,
                             rafPending>>]_vars

\* start(2) was called on a Running engine with its one frame pending.
C6_Witness ==
    /\ last.op = "start"
    /\ last.wasRunning
    /\ last.arg = 2
    /\ onTick = 2
    /\ running
    /\ rafPending = {frameId}

\* A loop frame has just ended: after the callback returned, or after the
\* tick when no callback is registered.
FrameEnded ==
    \/ last.op = "frameEnd"
    \/ (last.op = "frame" /\ last.ticked /\ ~last.called)

\* C7: at the end of every loop frame the engine is Idle with no frame
\* pending if and only if alpha <= alphaMin and alphaTarget <= alphaMin;
\* otherwise it is Running and exactly one next frame is scheduled.
C7_FrameEndIdleIffSettled ==
    FrameEnded =>
        IF Settled(alpha, options)
        THEN ~running /\ rafPending = {}
        ELSE running /\ Cardinality(rafPending) = 1

\* C9: reheat(a) with a > alphaMin leaves the engine Running, with its loop
\* alive: a frame is requested, or the loop is inside the tick callback.
C9_ReheatLeavesRunning ==
    (last.op = "reheat" /\ Gt(last.arg, options.alphaMin)) =>
        /\ running
        /\ (pc = "callback" \/ frameId \in rafPending)

\* reheat(a), a > alphaMin, on an Idle engine without callback and nodes.
C9_Witness ==
    /\ last.op = "reheat"
    /\ Gt(last.arg, options.alphaMin)
    /\ ~last.wasRunning
    /\ onTick = Null
    /\ nodes = <<>>
    /\ running

\* ----------------------------------------------------------- the engine: pins

\* The node sits at its pin, at rest.
AtPin(node, x, y) ==
    /\ node.x = x
    /\ node.y = y
    /\ node.fx = x
    /\ node.fy = y
    /\ node.vx = 0
    /\ node.vy = 0

\* The step pins, moves or unpins the node id.
Repins(id) ==
    /\ last'.op \in {"pinNode", "movePinnedNode", "unpinNode"}
    /\ last'.id = id

\* C2: pinNode(id, x, y) on a registered id leaves the node at (x, y) with
\* zero velocity, and every later operation that is not a pin, move or unpin
\* of that id, and keeps the id registered, leaves it there: tick (called or
\* run by the loop), pulseAmbient, reheat, setAlpha, setAlphaTarget,
\* setOptions, setEdges, setNodes.
C2_PinnedStaysPut ==
    [][/\ (last'.op = "pinNode" /\ SeqIndex(nodes, last'.id) # 0) =>
              AtPin(NodesGet(nodes', last'.id), last'.x, last'.y)
       /\ \A i \in 1..Len(nodes) :
              (/\ Pinned(nodes[i])
               /\ AtPin(nodes[i], nodes[i].fx, nodes[i].fy)
               /\ SeqIndex(nodes', nodes[i].id) # 0
               /\ ~Repins(nodes[i].id)) =>
                  AtPin(NodesGet(nodes', nodes[i].id), nodes[i].fx, nodes[i].fy)]_vars

\* After a tick: a pinned node at its pin, linked to a node the tick moved.
C2_Witness ==
    /\ last.op = "tick"
    /\ Len(links) > 0
    /\ \E i, j \in 1..Len(nodes) :
          /\ AtPin(nodes[i], Fx(60, 1), 0)
          /\ ~Pinned(nodes[j])
          /\ nodes[j].vx # 0

\* -------------------------------------------------------- the engine: cooling

\* C8: a Running engine with alphaTarget <= alphaMin and 0 < alphaDecay <= 1
\* that the host leaves alone reaches Idle, with no frame pending, after
\* finitely many frames, whatever nodes are registered.
C8_EventuallySettles == <>(~running /\ rafPending = {})

\* ------------------------------------------------------ the engine: getState

\* What a getState() value tells: alpha, running, the options, the nodes and
\* the links.
SnapData(v) ==
    [alpha |-> v.alpha, running |-> v.running, options |-> v.options,
     nodes |-> v.nodes, links |-> v.links]

\* C10: a value returned by getState() does not change when the engine later
\* executes tick, pin or setter operations, and writing to it does not change
\* the engine's state.
C10_SnapshotIsIndependent ==
    [][/\ (snap.has /\ last'.op \notin {"getState", "write"}) =>
              (snap'.has /\ SnapData(snap') = SnapData(snap))
       /\ last'.op = "write" =>
              UNCHANGED <<options, alpha, nodes, links, frameId, running, onTick,
                          rafPending>>]_vars

\* ------------------------------------------------------- the host: auto layout

\* C11: initialised with autoLayout enabled, a node configured with a position
\* keeps exactly that position after the initial auto-layout pass; only nodes
\* configured without a position are assigned one.
C11_ExplicitPositionsWin ==
    (lout.done /\ lopts.truthy) =>
        \A i \in 1..Len(lnodes) :
            lnodes[i].position.has => lout.nodes[i].position = lnodes[i].position

\* ------------------------------------------------------ layout: back edges

\* C12: examining an edge whose target is on the active recursion path never
\* changes the rank of that target.
C12_BackEdgeKeepsRank ==
    lout.computed => lout.backRaised = {}

\* C13: every edge that ranking treated as a back edge has
\* rank(target) - rank(source) <= 0 in the final ranks.
C13_BackEdgeDeltaNotPositive ==
    lout.computed =>
        \A e \in lout.back : lout.ranks[e[2]] - lout.ranks[e[1]] <= 0

\* C14: the ranks are non-negative integers and every layer index from 0 to
\* maxRank holds at least one node.
C14_LayersContiguous ==
    lout.computed =>
        /\ \A id \in NodeIds(lnodes) : lout.ranks[id] \in Nat
        /\ \A r \in 0..MaxRank(lout.ranks) :
              \E id \in NodeIds(lnodes) : lout.ranks[id] = r

\* ------------------------------------------------------- the engine: settled

\* C15: with alpha = alphaTarget = alphaMin, a tick() call leaves the position
\* of every unpinned node unchanged, whatever the nodes' distances and
\* velocities.
C15_SettledTickMovesNothing ==
    [][(/\ alpha = options.alphaMin
        /\ options.alphaTarget = options.alphaMin
        /\ last'.op = "tick") =>
            \A i \in 1..Len(nodes) :
                ~Pinned(nodes[i]) =>
                    /\ nodes'[i].x = nodes[i].x
                    /\ nodes'[i].y = nodes[i].y]_vars

\* --------------------------------------------------------- the engine: alpha

\* C16: in every state reached by tick, reheat, setAlpha, setAlphaTarget,
\* setOptions, start and stop, 0 <= alpha <= the alpha the engine was created
\* with (the default one, in this specification).
C16_AlphaWithinInitial ==
    /\ 0 <= alpha
    /\ alpha <= FORCE_DEFAULTS.alpha

\* -------------------------------------------------- the engine: registration

\* The ids of a list of nodes or of the engine's Map.
IdsOf(seq) == {seq[i].id : i \in 1..Len(seq)}

\* The id is in the list and was not registered before the step.
NewIn(list, i) == list[i].id \notin IdsOf(nodes)

\* C17: after setNodes(list) the registered ids are exactly the ids of list,
\* and every id that was not registered before starts at the position the
\* list supplies, or (0, 0) when it supplies none, with zero velocity and no
\* pin.
C17_SetNodesRegistersList ==
    [][last'.op = "setNodes" =>
          /\ IdsOf(nodes') = IdsOf(last'.list)
          /\ Len(nodes') = Cardinality(IdsOf(last'.list))
          /\ \A i \in 1..Len(last'.list) :
                NewIn(last'.list, i) =>
                    \E j \in 1..Len(nodes') :
                        /\ nodes'[j].id = last'.list[i].id
                        /\ nodes'[j].x = (IF last'.list[i].position.has
                                          THEN last'.list[i].position.x ELSE 0)
                        /\ nodes'[j].y = (IF last'.list[i].position.has
                                          THEN last'.list[i].position.y ELSE 0)
                        /\ nodes'[j].vx = 0 /\ nodes'[j].vy = 0
                        /\ nodes'[j].fx = Null /\ nodes'[j].fy = Null]_vars

\* setNodes just dropped an id that was pinned and registered two new ids,
\* one with a position and one without.
C17_Witness ==
    /\ last.op = "setNodes"
    /\ snap.has
    /\ \E i \in 1..Len(snap.nodes) :
          Pinned(snap.nodes[i]) /\ snap.nodes[i].id \notin IdsOf(nodes)
    /\ \E i, j \in 1..Len(last.list) :
          /\ last.list[i].position.has /\ ~last.list[j].position.has
          /\ {last.list[i].id, last.list[j].id} \cap IdsOf(snap.nodes) = {}

\* C18: setNodes(list) leaves the velocity, the pin and the simulated position
\* of every id that was registered and is in list unchanged, whatever position
\* list supplies for it.
C18_SetNodesKeepsKnown ==
    [][last'.op = "setNodes" =>
          \A i \in 1..Len(nodes) :
              nodes[i].id \in IdsOf(last'.list) =>
                  \E j \in 1..Len(nodes') :
                      /\ nodes'[j].id = nodes[i].id
                      /\ nodes'[j].x = nodes[i].x /\ nodes'[j].y = nodes[i].y
                      /\ nodes'[j].vx = nodes[i].vx /\ nodes'[j].vy = nodes[i].vy
                      /\ nodes'[j].fx = nodes[i].fx /\ nodes'[j].fy = nodes[i].fy]_vars

\* setNodes kept a moving node and a pinned node, and its list supplied for
\* one of them a position other than the one the node has.
C18_Witness ==
    /\ last.op = "setNodes"
    /\ \E j \in 1..Len(nodes) : Pinned(nodes[j])
    /\ \E j \in 1..Len(nodes) : nodes[j].vx # 0
    /\ \E i \in 1..Len(last.list), j \in 1..Len(nodes) :
          /\ nodes[j].id = last.list[i].id
          /\ last.list[i].position.has
          /\ nodes[j].x # last.list[i].position.x

\* The entry has both ends registered.
Resolves(edge) == edge.source \in IdsOf(nodes) /\ edge.target \in IdsOf(nodes)

\* C19: after setEdges(list) the links are exactly the entries of list, in
\* order, whose source and target are registered at that moment; the previous
\* links are gone and entries with an unknown end are dropped.
C19_SetEdgesReplacesLinks ==
    [][last'.op = "setEdges" =>
          LET kept == SelectSeq(last'.list, Resolves)
          IN  /\ Len(links') = Len(kept)
              /\ \A i \in 1..Len(kept) :
                    /\ links'[i].source = kept[i].source
                    /\ links'[i].target = kept[i].target]_vars

\* setEdges replaced a link by another and dropped an entry with an end that
\* is not registered.
C19_Witness ==
    /\ last.op = "setEdges"
    /\ Len(links) = 1
    /\ Len(last.list) = 2
    /\ snap.has
    /\ Len(snap.links) = 1
    /\ snap.links[1] # links[1]

\* C20: in every reachable state, every link the engine holds, and getState()
\* reports, has a source and a target that are registered nodes.
C20_LinksResolve ==
    \A i \in 1..Len(links) : Resolves(links[i])

\* ------------------------------------------------- the engine: unknown ids

\* What the engine holds, but for the held getState() value and the history.
EngineState == <<options, alpha, nodes, links, frameId, running, onTick, rafPending>>

\* C21: pinNode, movePinnedNode and unpinNode with an id that is not
\* registered leave nodes, links, alpha, options, the running flag and the
\* pending frame unchanged.
C21_UnknownIdIgnored ==
    [][(/\ last'.op \in {"pinNode", "movePinnedNode", "unpinNode"}
        /\ last'.id \notin IdsOf(nodes)) => UNCHANGED EngineState]_vars

\* A pin of an id that is not registered, on a Running engine with nodes, one
\* of them pinned, and links.
C21_Witness ==
    /\ last.op = "pinNode"
    /\ last.id \notin IdsOf(nodes)
    /\ running
    /\ Len(links) > 0
    /\ \E i \in 1..Len(nodes) : Pinned(nodes[i])

\* ---------------------------------------------- the engine: non-finite numbers

\* C22: no operation called with a number that is not finite puts such a
\* value into the simulation state: alpha, alphaTarget and every node's
\* position, velocity and pin coordinates stay finite (a pin coordinate may
\* be null).
C22_StateStaysFinite ==
    /\ IsFinite(alpha)
    /\ IsFinite(options.alphaTarget)
    /\ \A i \in 1..Len(nodes) :
          /\ IsFinite(nodes[i].x) /\ IsFinite(nodes[i].y)
          /\ IsFinite(nodes[i].vx) /\ IsFinite(nodes[i].vy)
          /\ nodes[i].fx # NaN /\ nodes[i].fy # NaN

\* ------------------------------------------------ the engine: alpha setters

\* C23: reheat(target) leaves alpha = max(previous alpha, target) and
\* alphaTarget = max(previous alphaTarget, target), lowers neither, and leaves
\* nodes (pins included) and links unchanged.
C23_ReheatOnlyRaises ==
    [][last'.op = "reheat" =>
          /\ alpha' = (IF alpha >= last'.arg THEN alpha ELSE last'.arg)
          /\ options'.alphaTarget =
                (IF options.alphaTarget >= last'.arg THEN options.alphaTarget
                 ELSE last'.arg)
          /\ alpha' >= alpha
          /\ options'.alphaTarget >= options.alphaTarget
          /\ UNCHANGED <<nodes, links>>]_vars

\* A reheat that raised alphaTarget and kept a higher alpha, with a node
\* registered.
C23_Witness ==
    /\ last.op = "reheat"
    /\ alpha > last.arg
    /\ options.alphaTarget = last.arg
    /\ Len(nodes) > 0

\* The engine is Running, with one more frame requested than before the step.
StartedByStep ==
    /\ running'
    /\ Cardinality(rafPending') = Cardinality(rafPending) + 1
    /\ rafPending \subseteq rafPending'

\* C24: setAlphaTarget(t) sets alphaTarget to max(0, t) and leaves alpha
\* unchanged; an Idle engine becomes Running, with one frame requested,
\* exactly when alpha > alphaMin or the new alphaTarget > alphaMin, and
\* otherwise stays Idle with no frame requested; a Running engine stays
\* Running with no frame requested.
C24_SetAlphaTargetResumes ==
    [][last'.op = "setAlphaTarget" =>
          /\ options'.alphaTarget = (IF last'.arg > 0 THEN last'.arg ELSE 0)
          /\ alpha' = alpha
          /\ IF running THEN running' /\ rafPending' = rafPending
             ELSE IF alpha > options.alphaMin
                     \/ options'.alphaTarget > options.alphaMin
                  THEN StartedByStep
                  ELSE ~running' /\ rafPending' = rafPending]_vars

\* setAlphaTarget with a negative argument left a cold engine Idle.
C24_Witness ==
    /\ last.op = "setAlphaTarget"
    /\ last.arg < 0
    /\ options.alphaTarget = 0
    /\ alpha <= options.alphaMin
    /\ ~running
    /\ rafPending = {}

\* C25: setOptions(partial) replaces exactly the option keys of partial and
\* keeps the others; alpha becomes partial.alpha when partial has the key and
\* is unchanged otherwise; nodes, links, the running flag and the pending
\* frame are unchanged.
C25_SetOptionsMerges ==
    [][last'.op = "setOptions" =>
          /\ DOMAIN options' = DOMAIN options \cup DOMAIN last'.arg
          /\ \A k \in DOMAIN options' :
                options'[k] = (IF k \in DOMAIN last'.arg THEN last'.arg[k]
                               ELSE options[k])
          /\ alpha' = (IF "alpha" \in DOMAIN last'.arg THEN last'.arg.alpha
                       ELSE alpha)
          /\ UNCHANGED <<nodes, links, running, frameId, rafPending, onTick>>]_vars

\* setOptions with an alpha key on a Running engine whose alpha was another.
C25_Witness ==
    /\ last.op = "setOptions"
    /\ "alpha" \in DOMAIN last.arg
    /\ alpha = last.arg.alpha
    /\ options.alphaTarget > 0
    /\ options.alphaDecay # FORCE_DEFAULTS.alphaDecay
    /\ running
    /\ Len(nodes) > 0

\* The id of the anchor node: options.anchorNodeId || 'streamline'
AnchorId == IF options.anchorNodeId = Null THEN Streamline ELSE options.anchorNodeId

\* C26: pulseAmbient(phase) changes nothing but the velocities of the nodes
\* that are neither pinned nor the anchor node: positions, pins, the
\* velocities of pinned nodes and of the anchor node, alpha, the options,
\* links and the running flag are unchanged.
C26_PulseOnlyFreeVelocities ==
    [][last'.op = "pulseAmbient" =>
          /\ Len(nodes') = Len(nodes)
          /\ \A i \in 1..Len(nodes) :
                /\ nodes'[i].id = nodes[i].id
                /\ nodes'[i].x = nodes[i].x /\ nodes'[i].y = nodes[i].y
                /\ nodes'[i].fx = nodes[i].fx /\ nodes'[i].fy = nodes[i].fy
                /\ (Pinned(nodes[i]) \/ nodes[i].id = AnchorId) =>
                      nodes'[i].vx = nodes[i].vx /\ nodes'[i].vy = nodes[i].vy
          /\ UNCHANGED <<alpha, options, links, running, frameId, rafPending>>]_vars

\* A pulse on an engine that holds a pinned node, the anchor node, and a free
\* node that the pulse set in motion.
C26_Witness ==
    /\ last.op = "pulseAmbient"
    /\ \E i, j, k \in 1..Len(nodes) :
          /\ Pinned(nodes[i]) /\ nodes[i].vx = 0
          /\ nodes[j].id = AnchorId /\ ~Pinned(nodes[j]) /\ nodes[j].vx = 0
          /\ ~Pinned(nodes[k]) /\ nodes[k].id # AnchorId /\ nodes[k].vx # 0

\* The options in force of the layout call, and the coordinates the call
\* returned for the i-th input node, along the rank axis and across it.
LOpt == MergeOptions(LAYOUT_DEFAULTS, lopts)

Horizontal == LOpt.direction \in {"LR", "RL"}

RankCoord(i) ==
    IF Horizontal THEN lout.returned[i].position.x ELSE lout.returned[i].position.y

CrossCoord(i) ==
    IF Horizontal THEN lout.returned[i].position.y ELSE lout.returned[i].position.x

CrossSize(i) ==
    IF Horizontal THEN GetNodeDim(lnodes[i], LOpt.nodeHeight, "height")
    ELSE GetNodeDim(lnodes[i], LOpt.nodeWidth, "width")

\* C27: with no edges and every node needing layout, layoutNodes gives every
\* node rank 0 and one common rank-axis coordinate, and places the nodes in
\* input order across: each node starts where the previous one started plus
\* the previous node's cross size plus nodeSpacing.
C27_EdgelessRow ==
    (lout.computed /\ ledges = <<>>) =>
        \A i \in 1..Len(lnodes) :
            /\ lout.ranks[lnodes[i].id] = 0
            /\ lout.returned[i].position.has
            /\ RankCoord(i) = RankCoord(1)
            /\ i > 1 => CrossCoord(i) = CrossCoord(i - 1) + CrossSize(i - 1)
                                        + LOpt.nodeSpacing

\* Three nodes of three sizes and no edge, laid out left to right.
C27_Witness ==
    /\ lout.computed
    /\ ledges = <<>>
    /\ Len(lnodes) = 3
    /\ LOpt.direction = "LR"
    /\ CrossSize(1) # CrossSize(2) /\ CrossSize(2) # CrossSize(3)
    /\ CrossCoord(3) > CrossCoord(2) /\ CrossCoord(2) > CrossCoord(1)

\* The orders n0, n1, .. of the input nodes' ids in which the edge list is
\* the simple chain n0 -> n1 -> ..: one edge for each step, and no other.
ChainOrders ==
    {p \in [1..Len(lnodes) -> NodeIds(lnodes)] :
        /\ \A a, b \in 1..Len(lnodes) : p[a] = p[b] => a = b
        /\ Len(ledges) = Len(lnodes) - 1
        /\ {<<ledges[k].source, ledges[k].target>> : k \in 1..Len(ledges)}
              = {<<p[k], p[k + 1]>> : k \in 1..(Len(lnodes) - 1)}}

\* C28: for a simple chain n0 -> n1 -> .. -> nk of need-layout nodes of the
\* default size laid out top to bottom, node ni gets rank i and the
\* y-coordinate i * (nodeHeight + rankSpacing).
C28_ChainRanksAndRows ==
    (lout.computed /\ LOpt.direction = "TB") =>
        \A p \in ChainOrders : \A k \in 1..Len(lnodes), j \in 1..Len(lnodes) :
            lnodes[j].id = p[k] =>
                /\ lout.ranks[p[k]] = k - 1
                /\ lout.returned[j].position.has
                /\ lout.returned[j].position.y
                      = (k - 1) * (LOpt.nodeHeight + LOpt.rankSpacing)

\* The chain 2 -> 3 -> 1 given with its edges in the other order.
C28_Witness ==
    /\ lout.computed
    /\ LOpt.direction = "TB"
    /\ Len(lnodes) = 3
    /\ ledges = <<[source |-> 3, target |-> 1], [source |-> 2, target |-> 3]>>
    /\ ChainOrders = {<<2, 3, 1>>}
    /\ lout.returned[1].position.y = 2 * (LOpt.nodeHeight + LOpt.rankSpacing)
    /\ lout.returned[3].position.y = LOpt.nodeHeight + LOpt.rankSpacing

\* What the same call returns with the direction turned forward (TB for BT,
\* LR for RL), and the coordinates of the i-th node in it.
ForwardReturned ==
    LayoutNodesResult(lnodes, ledges,
        [lopts EXCEPT !.direction = IF @ = "BT" THEN "TB" ELSE "LR"]).returned

\* The forward coordinates of the input nodes, by index: along the rank axis
\* and across it.
ForwardCoords ==
    Bind(ForwardReturned, LAMBDA fwd :
        [i \in 1..Len(lnodes) |->
            [rank  |-> IF Horizontal THEN fwd[i].position.x ELSE fwd[i].position.y,
             cross |-> IF Horizontal THEN fwd[i].position.y ELSE fwd[i].position.x]])

\* C29: with direction BT (RL) and every node needing layout, each node's
\* rank-axis coordinate is its TB (LR) rank-axis coordinate negated, and
\* then every position is shifted so that the least coordinate over all
\* nodes is 0 on each axis; this holds for cyclic graphs too.
C29_ReversedIsNegatedAndShifted ==
    (lout.computed /\ LOpt.direction \in {"BT", "RL"}) =>
        Bind(ForwardCoords, LAMBDA fwd :
            LET I == 1..Len(lnodes)
                minRank  == SetMin({0 - fwd[i].rank : i \in I}, 0)
                minCross == SetMin({fwd[i].cross : i \in I}, 0)
            IN  /\ \A i \in I :
                      /\ lout.returned[i].position.has
                      /\ RankCoord(i) = (0 - fwd[i].rank) - minRank
                      /\ CrossCoord(i) = fwd[i].cross - minCross
                /\ \E i \in I : RankCoord(i) = 0
                /\ \E i \in I : CrossCoord(i) = 0
                /\ \A i \in I : RankCoord(i) >= 0 /\ CrossCoord(i) >= 0)

\* Bottom to top, three nodes on a cycle: the ranks differ, and a node that
\* is first in the forward layout is moved off 0.
C29_Witness ==
    /\ lout.computed
    /\ LOpt.direction = "BT"
    /\ Len(lnodes) = 3
    /\ lout.back # {}
    /\ \E i \in 1..Len(lnodes) : ForwardCoords[i].rank = 0 /\ RankCoord(i) > 0

\* The edges of the call whose two ends are ids of input nodes, in order.
EdgesBetweenInputs ==
    LET ids == {lnodes[i].id : i \in 1..Len(lnodes)}
        Inside(e) == e.source \in ids /\ e.target \in ids
    IN  SelectSeq(ledges, Inside)

\* C30: layoutNodes drops every edge whose source or target is not the id
\* of an input node: the call raises no error, and what it returns is what the call
\* with those edges removed returns.
C30_DanglingEdgesDropped ==
    lout.called =>
        /\ ~lout.threw
        /\ lout.returned = LayoutNodesResult(lnodes, EdgesBetweenInputs, lopts).returned

\* A call with an edge out to an id of no node and an edge between two
\* nodes, which put its nodes on two ranks.
C30_Witness ==
    /\ lout.computed
    /\ Len(lnodes) >= 2
    /\ \E k \in 1..Len(ledges) :
          ledges[k].source = 1 /\ ledges[k].target = Len(lnodes) + 1
    /\ Len(EdgesBetweenInputs) = 1
    /\ Len(lout.layers) = 2

\* The call gave the i-th input node a position: the node it returned for it
\* holds another position than the input node.
AssignedPosition(i) == lout.returned[i].position # lnodes[i].position

\* C31: whether layoutNodes assigns a node a position is decided by the
\* node's _needsLayout flag alone: the node is laid out if and only if the
\* flag is true, whether or not it has a position and whatever its
\* coordinates are.
C31_FlagAloneDecides ==
    lout.called =>
        \A i \in 1..Len(lnodes) : AssignedPosition(i) <=> lnodes[i].flag = "true"

\* C32: layoutNodes returns a list of the length of its input with the same
\* ids in the same order; a returned node differs from its input node in
\* nothing but the position, and only if the node needs layout, and every
\* node that needs layout holds one finite {x, y}.
C32_SameListNewPositions ==
    (lout.called /\ ~lout.threw) =>
        /\ Len(lout.returned) = Len(lnodes)
        /\ \A i \in 1..Len(lnodes) :
              /\ lout.returned[i].id = lnodes[i].id
              /\ lout.returned[i]
                    = [lnodes[i] EXCEPT !.position = lout.returned[i].position]
              /\ HasExplicitPosition(lnodes[i]) => lout.returned[i] = lnodes[i]
              /\ ~HasExplicitPosition(lnodes[i]) =>
                    /\ lout.returned[i].position.has
                    /\ IsFinite(lout.returned[i].position.x)
                    /\ IsFinite(lout.returned[i].position.y)

\* Two nodes: one that needs layout and had no position, one that keeps the
\* position it came with.
C32_Witness ==
    /\ lout.computed
    /\ Len(lnodes) = 2
    /\ \E i, j \in 1..Len(lnodes) :
          /\ lnodes[i].flag = "true" /\ ~lnodes[i].position.has
          /\ lout.returned[i].position.has
          /\ lnodes[j].flag = "false" /\ lnodes[j].position.has
          /\ lout.returned[j] = lnodes[j]

\* The first two registered nodes are at nonzero distance from each other.
Apart == nodes[1].x # nodes[2].x \/ nodes[1].y # nodes[2].y

\* Alpha and every position and velocity are finite numbers.
AllFinite ==
    /\ IsFinite(alpha)
    /\ \A i \in 1..Len(nodes) :
          /\ IsFinite(nodes[i].x) /\ IsFinite(nodes[i].y)
          /\ IsFinite(nodes[i].vx) /\ IsFinite(nodes[i].vy)

\* C33: two unpinned nodes registered at one place, with a nonzero
\* chargeStrength, are at nonzero distance from each other at some point of
\* the first MaxTicks = 50 calls of tick(), whatever jitter is drawn, and no
\* tick leaves a position or a velocity that is not finite.
C33_CoincidentNodesSeparate == <>Apart /\ []AllFinite

\* The scheduled frames that perform a tick when they fire: every pending
\* request, while the engine is Running.
LiveFrames == IF running THEN rafPending ELSE {}

\* C34: at most one loop chain is live.  Whenever the host has control
\* (between frames), at most one scheduled frame is about to perform a tick,
\* whatever start, stop, reheat and setAlphaTarget calls were made between
\* frames or from inside the tick callback.
C34_OneLoopChain ==
    pc = "host" => Cardinality(LiveFrames) <= 1

\* The extent of the i-th input node along the rank axis, and the index of
\* the input node with a given id.
RankSize(i) ==
    IF Horizontal THEN GetNodeDim(lnodes[i], LOpt.nodeWidth, "width")
    ELSE GetNodeDim(lnodes[i], LOpt.nodeHeight, "height")

InputIndex(id) == CHOOSE i \in 1..Len(lnodes) : lnodes[i].id = id

\* The rectangles of the input nodes i and j are at least gap apart along
\* the rank axis: one ends at least gap before the other begins.
RankAxisApart(i, j, gap) ==
    \/ RankCoord(j) - (RankCoord(i) + RankSize(i)) >= gap
    \/ RankCoord(i) - (RankCoord(j) + RankSize(j)) >= gap

\* C35: in every direction and for nodes of differing sizes, the rectangles
\* of the nodes of consecutive layers do not overlap along the rank axis:
\* the far edge of every node of one layer and the near edge of every node
\* of the next layer are at least rankSpacing apart.
C35_LayersKeepRankSpacing ==
    lout.computed =>
        \A r \in 1..(Len(lout.layers) - 1) :
            \A a \in Range(lout.layers[r]), b \in Range(lout.layers[r + 1]) :
                RankAxisApart(InputIndex(a), InputIndex(b), LOpt.rankSpacing)

\* C36: after reheat(t) with t > alphaMin the engine is Running with
\* alphaTarget above alphaMin; alphaTarget is lowered by setAlphaTarget and
\* setOptions only; and while alphaTarget is above alphaMin no frame takes a
\* Running engine to Idle: cooling alone never undoes a reheat.
C36_ReheatOutlastsCooling ==
    [][/\ (last'.op = "reheat" /\ Gt(last'.arg, options.alphaMin)) =>
              running' /\ Gt(options'.alphaTarget, options'.alphaMin)
       /\ options'.alphaTarget < options.alphaTarget =>
              last'.op \in {"setAlphaTarget", "setOptions"}
       /\ (last'.op \in {"frame", "frameEnd"} /\ running
             /\ Gt(options.alphaTarget, options.alphaMin)) => running']_vars

\* A frame has run to its end on a reheated engine whose alpha is down at
\* alphaMin or under it, and the engine is Running, with its next frame
\* requested.
C36_Witness ==
    /\ FrameEnded
    /\ Gt(options.alphaTarget, options.alphaMin)
    /\ Le(alpha, options.alphaMin)
    /\ Len(nodes) = 0
    /\ running
    /\ frameId \in rafPending

\* C37: start() on an Idle engine that is settled and holds a node: the
\* next frame performs a tick and calls the tick callback (when one is
\* registered), and at its end the engine is Idle with no frame pending, so
\* that tick and that call are the only ones.
C37_SettledStartRunsOneFrame ==
    [][/\ (last.op = "start" /\ ~last.wasRunning /\ Settled(alpha, options)
             /\ Len(nodes) > 0 /\ last'.op = "frame") =>
              /\ last'.ticked
              /\ IF onTick # Null
                 THEN last'.called /\ pc' = "callback" /\ rafPending' = {}
                      /\ Settled(alpha', options')
                 ELSE ~last'.called /\ ~running' /\ rafPending' = {}
                      /\ frameId' = Null
       /\ (last.op = "frame" /\ Settled(alpha, options) /\ rafPending = {}
             /\ last'.op = "frameEnd") =>
              ~running' /\ rafPending' = {} /\ frameId' = Null]_vars

\* The frame after a start on a settled engine with two nodes has called
\* the callback and come to its end: Idle, nothing pending.
C37_Witness ==
    /\ last.op = "frameEnd"
    /\ Len(nodes) = 2
    /\ onTick # Null
    /\ Settled(alpha, options)
    /\ ~running
    /\ rafPending = {}
    /\ frameId = Null

\* The caller's nodes, every one flagged _needsLayout: true.
AllFlagged == [i \in 1..Len(lnodes) |-> [lnodes[i] EXCEPT !.flag = "true"]]

\* The layer (1-based) and the slot of the layer that hold the node id.
SlotOf(layers, id) ==
    CHOOSE rk \in {<<r, k>> : r \in 1..Len(layers), k \in 1..Len(lnodes)} :
        rk[2] <= Len(layers[rk[1]]) /\ layers[rk[1]][rk[2]] = id

\* C38: ranks and layer slots are computed over all nodes: the ranks, the
\* layers and the slot positions of a call are those of the same call with
\* every node flagged _needsLayout, every node has one slot of the layer of
\* its rank, and a node that needs layout is returned at the position of its
\* slot, which lies after the slots of the nodes before it in the layer,
\* fixed ones included.
C38_FixedNodesKeepTheirSlots ==
    lout.computed =>
        Bind(LayoutNodesResult(AllFlagged, ledges, lopts), LAMBDA all :
            /\ lout.ranks = all.ranks
            /\ lout.layers = all.layers
            /\ lout.positions = all.positions
            /\ \A i \in 1..Len(lnodes) :
                 /\ \E r \in 1..Len(lout.layers) :
                      \E k \in 1..Len(lout.layers[r]) :
                          /\ lout.layers[r][k] = lnodes[i].id
                          /\ r = lout.ranks[lnodes[i].id] + 1
                 /\ ~HasExplicitPosition(lnodes[i]) =>
                      /\ lout.returned[i].position = all.returned[i].position
                      /\ \A j \in 1..Len(lnodes) :
                           LET si == SlotOf(lout.layers, lnodes[i].id)
                               sj == SlotOf(lout.layers, lnodes[j].id)
                           IN  (si[1] = sj[1] /\ sj[2] < si[2]) =>
                                 CrossCoord(i) >= lout.positions[lnodes[j].id][
                                     IF Horizontal THEN "y" ELSE "x"]
                                   + CrossSize(j) + LOpt.nodeSpacing)

\* A fixed node holds the first slot of a layer and a node that needs layout
\* is returned in the second, one node and one spacing further.
C38_Witness ==
    /\ lout.computed
    /\ Len(lnodes) = 2
    /\ lnodes[1].flag = "false"
    /\ lnodes[2].flag = "true"
    /\ lout.layers = <<(<<1, 2>>)>>
    /\ lout.returned[1] = lnodes[1]
    /\ lout.returned[2].position =
           Position(LAYOUT_DEFAULTS.nodeWidth + LAYOUT_DEFAULTS.nodeSpacing, 0)

\* The passes of one call in their order: the layers before a pass, the
\* layer it orders, the adjacency and the reference layer it reads, and the
\* layers after it.
PassRecord(layers, i, adjacency, ref) ==
    [before |-> layers, index |-> i, adjacency |-> adjacency, ref |-> ref,
     after |-> OrderLayerByBarycenter(layers, i, adjacency, ref)]

RECURSIVE DownSteps(_, _, _)
DownSteps(layers, inAdj, i) ==
    IF i > Len(layers) THEN <<>>
    ELSE LET p == PassRecord(layers, i, inAdj, layers[i - 1])
         IN  <<p>> \o DownSteps(p.after, inAdj, i + 1)

RECURSIVE UpSteps(_, _, _)
UpSteps(layers, adj, i) ==
    IF i < 1 THEN <<>>
    ELSE LET p == PassRecord(layers, i, adj, layers[i + 1])
         IN  <<p>> \o UpSteps(p.after, adj, i - 1)

LayersAfter(passes, layers) ==
    IF passes = <<>> THEN layers ELSE passes[Len(passes)].after

RECURSIVE IterSteps(_, _, _, _)
IterSteps(layers, adj, inAdj, left) ==
    IF left = 0 THEN <<>>
    ELSE LET down == DownSteps(layers, inAdj, 2)
             mid  == LayersAfter(down, layers)
             up   == UpSteps(mid, adj, Len(layers) - 1)
         IN  down \o up
             \o IterSteps(LayersAfter(up, mid), adj, inAdj, left - 1)

\* The passes of four down/up iterations over the layers of the ranks.
FourIterations ==
    LET a == Adjacency(lnodes, ledges)
    IN  IterSteps(Layers(lnodes, lout.ranks), a.adj, a.inAdj, 4)

\* The layer after the pass p holds the nodes of the layer before it, each
\* once, in ascending order of the key, equal keys in their previous order.
OrderedByKey(p) ==
    LET old == p.before[p.index]
        new == p.after[p.index]
        key(id) == Barycenter(id, p.adjacency, p.ref)
        was(id) == IndexIn(old, id)
    IN  /\ Len(new) = Len(old)
        /\ Range(new) = Range(old)
        /\ \A r \in 1..Len(p.before) : r # p.index => p.after[r] = p.before[r]
        /\ \A k \in 1..Len(new), m \in 1..Len(new) :
             k < m =>
               /\ ~BaryLess(key(new[m]), key(new[k]))
               /\ ~BaryLess(key(new[k]), key(new[m])) => was(new[k]) < was(new[m])
               /\ key(new[k]).inf => key(new[m]).inf
        /\ \A id \in Range(old) :
             key(id).inf <=>
               \A n \in 1..Len(p.adjacency[id]) :
                   p.adjacency[id][n] \notin Range(p.ref)

RECURSIVE CollisionSteps(_, _, _, _, _)
CollisionSteps(ns, pairs, p, minDistance, dt) ==
    IF p > Len(pairs) THEN <<>>
    ELSE LET after == CollisionForceOn(ns, pairs[p][1], pairs[p][2],
                                       minDistance, dt)
         IN  <<[before |-> ns, i |-> pairs[p][1], j |-> pairs[p][2],
                after |-> after]>>
             \o CollisionSteps(after, pairs, p + 1, minDistance, dt)

\* The member m of the pair has gone from where it was by (mx, my).
MovedBy(s, m, mx, my) ==
    s.after[m] = [s.before[m] EXCEPT !.x = @ + mx, !.y = @ + my]

\* The pair step s: nodes at 2 x collisionRadius or further stay; of a
\* closer pair each unpinned member goes away from the other along the line
\* through both by half the overlap times dt, a pinned member stays, and so
\* does every other node.  Two nodes at one place count as 0.001 apart
\* along x.
PairPushedApart(s, minDistance, dt) ==
    LET a     == s.before[s.i]
        b     == s.before[s.j]
        same  == a.x = b.x /\ a.y = b.y
        dx    == IF same THEN Fx(1, 1000) ELSE b.x - a.x
        dy    == b.y - a.y
        dist  == IF same THEN Fx(1, 1000) ELSE Hypot(dx, dy)
        half  == FxMul(FxMul(minDistance - dist, Fx(1, 2)), dt)
        ux    == FxMul(FxDiv(dx, dist), half)
        uy    == FxMul(FxDiv(dy, dist), half)
    IN  IF dist >= minDistance THEN s.after = s.before
        ELSE /\ \A m \in 1..Len(s.before) :
                  m \notin {s.i, s.j} => s.after[m] = s.before[m]
             /\ IF Pinned(a) THEN s.after[s.i] = a
                ELSE MovedBy(s, s.i, 0 - ux, 0 - uy)
             /\ IF Pinned(b) THEN s.after[s.j] = b
                ELSE MovedBy(s, s.j, ux, uy)
             /\ half > 0

\* C40: in tick(dt), with collisionRadius > 0, every pair step of the
\* collision pass pushes a pair closer than 2 x collisionRadius apart by
\* half the overlap times dt at each unpinned member and leaves a pinned
\* member where it is, whatever alpha is; the tick ends with every unpinned
\* node where the pass left it plus its velocity times dt, and every pinned
\* node where it was.
C40_CollisionPushesApart ==
    [][(last'.op = "tick" /\ Len(nodes) >= 2 /\ options.collisionRadius > 0) =>
          Bind(CollisionSteps(nodes, Pairs(Len(nodes)), 1,
                              2 * options.collisionRadius, last'.dt),
               LAMBDA passes :
                 /\ Len(passes) = (Len(nodes) * (Len(nodes) - 1)) \div 2
                 /\ \A n \in 1..Len(passes) :
                      PairPushedApart(passes[n], 2 * options.collisionRadius,
                                      last'.dt)
                 /\ \A m \in 1..Len(nodes) :
                      LET left == passes[Len(passes)].after[m]
                      IN  IF Pinned(nodes[m])
                          THEN /\ nodes'[m].x = nodes[m].x
                               /\ nodes'[m].y = nodes[m].y
                               /\ left.x = nodes[m].x
                               /\ left.y = nodes[m].y
                          ELSE /\ nodes'[m].x
                                    = left.x + FxMul(nodes'[m].vx, last'.dt)
                               /\ nodes'[m].y
                                    = left.y + FxMul(nodes'[m].vy, last'.dt))]_vars

\* After one tick at alpha = 0 with dt = 0.5: node 1, pinned at (60, 0), is
\* where it was, and node 2, at rest and unpinned, which was at (0, 40) and
\* closer to it than 2 x collisionRadius = 90, has gone away from it, to
\* the left and up.
C40_Witness ==
    /\ last.op = "tick"
    /\ last.dt = Fx(5, 10)
    /\ steps = 4
    /\ alpha = 0
    /\ options.collisionRadius = Fx(45, 1)
    /\ Len(nodes) = 2
    /\ Pinned(nodes[1])
    /\ nodes[1].x = Fx(60, 1) /\ nodes[1].y = 0
    /\ ~Pinned(nodes[2])
    /\ nodes[2].x < 0
    /\ nodes[2].y > Fx(40, 1)
    /\ nodes[2].vx = 0 /\ nodes[2].vy = 0

====
